---- MODULE Spec2Model ----
(***************************************************************************)
(* Verification model of the command-line utilities of this repository:   *)
(*   - the Migration CLI's PaginatedFetcher (utils/api.py),                *)
(*   - the Migration CLI's ApiClient retry loop (api/client.py),           *)
(*   - the `migrate` subcommands and `migrate all` (commands/migrate),     *)
(*   - the action export with redaction (commands/export, models/action),  *)
(*   - the User-Reported Message Exporter (getUserReportedMessages),       *)
(*   - the New-Rule Hunter (huntWithNewCoreFeedRules),                     *)
(*   - the Coverage Manager (manageFeedRules),                             *)
(*   - the Malicious Sender Extractor (getMaliciousSenders).               *)
(* Each component is a state machine over its own variables; every        *)
(* specification below runs one component and leaves the others idle.      *)
(***************************************************************************)
EXTENDS Integers, Sequences, FiniteSets, TLC

VARIABLES
    \* ---- PaginatedFetcher.fetch_all ----
    fetch_pc,          \* "idle" | "loop" | "done"
    fetch_server,      \* number of objects the instance holds (it reports total = that number)
    fetch_extractor,   \* "auto" (extract_total_auto) | "page_len" (the lambdas of migrate exclusions/feeds)
    page_size,         \* the limit parameter
    fetch_offset,      \* offset of the next page request
    fetch_total,       \* <<>> while total is None, <<n>> afterwards
    all_items,         \* accumulated items
    fetch_requests,    \* offsets of the GET requests sent so far, in order
    \* ---- ApiClient._make_request ----
    req_pc,            \* "idle" | "loop" | "returned" | "raised"
    max_retries,
    attempt,           \* loop variable of `for attempt in range(self.max_retries)`
    req_history,       \* the server's answers to the requests sent so far, in order
    req_sleeps,        \* number of backoff sleeps taken so far
    \* ---- migrate subcommands and migrate all ----
    mig_pc,            \* "idle" | "start" | "validated" | "steps" | "previewed" | "applying" | "returned" | "done"
    mig_cmd,           \* "all" or the name of one step
    dry_run,           \* --dry-run
    yes,               \* --yes: prompt_confirmation is replaced by `lambda _: True`
    skip,              \* the steps named by --skip (migrate all)
    step_idx,          \* position in migration_steps of the step at hand (0 before the loop)
    dst_objs,          \* the destination objects the running step fetched
    queue,             \* what perform_migration still has to process
    results,           \* the results dict of the running step
    step_result,       \* the CommandResult the last subcommand returned
    dest_writes,       \* number of POST and PATCH requests sent to the destination
    step_writes,       \* those of them sent by the subcommand at hand
    last_write,        \* the last POST/PATCH sent to the destination
    previewed,         \* the running subcommand has output its preview
    confirmed,         \* answer of the running subcommand's prompt: "none" | "yes" | "no"
    plan_confirmed,    \* answer to the plan prompt of migrate all: "none" | "yes" | "no"
    trace,             \* events of migrate all, in order
    overall_results,   \* overall_results of migrate all: step name -> "none" | "success" | "skipped"
    requested,         \* steps that have sent at least one request
    \* export actions / export all (commands/export)
    exp_pc,            \* "idle" | "start" | "loop" | "done"
    exp_cmd,           \* "actions" | "all"
    include_sensitive, \* the --include-sensitive flag of the command line
    user_actions,      \* the fetched actions still to be exported
    exp_files,         \* the export data written, one per file
    exp_counts,        \* exported / failed / redacted
    \* User-Reported Message Exporter (getUserReportedMessages/user_report_export.py)
    ur_pc,             \* "idle" | "loop" | "gather" | "done"
    ur_server,         \* number of message groups the API holds
    ur_offset,         \* offset
    ur_total,          \* total: <<>> for None, <<n>> once known
    ur_tasks,          \* the tasks of the round: offset and state
    ur_data,           \* len(all_data)
    ur_any_ok,         \* a fetch has succeeded
    ur_rounds,         \* iterations of the while loop begun
    ur_report,         \* what main printed: "none" | "no_data" | "complete"
    ur_file,           \* the Excel file was written
    \* New-Rule Hunter (huntWithNewCoreFeedRules/main.py)
    h_pc,              \* "idle" | "begin" | "starting" | "polling" | "results" | "report" | "done" | "exited"
    h_nrules,          \* number of new rules found; a rule is its index
    h_started,         \* per rule: "none" | "ok" | "failed" (outcome of start_hunt)
    h_next,            \* position of the stage that works through its list in order
    h_jobs,            \* hunt_jobs: the HuntJob objects and the state of their poll_job
    h_requests,        \* requests sent so far, as (kind, rule)
    h_report,          \* rules of the report rows, in order
    \* Coverage Manager (manageFeedRules)
    cm_pc,             \* "idle" | "step4" | "analyze" | "json" | "csv" | "summary" | "except" | "returned"
    cm_rules,          \* detection_rules
    cm_answers,        \* what get_messages_by_rule did for each rule analysed so far
    cm_results,        \* results of analyze_coverage, in order
    cm_trace,          \* what the run has written and printed, in order
    cm_exit,           \* <<>> while main runs, <<code>> once it has returned
    \* get_rules_above_threshold called on its own (services/data_processor.py)
    sel_pc,            \* "idle" | "call" | "returned" | "raised"
    sel_results,       \* the results argument
    sel_threshold,     \* the threshold argument
    sel_out,           \* the list returned, or the exception raised
    \* The modification loop of main on its own (manageFeedRules/main.py)
    mod_pc,            \* "idle" | "loop" | "done"
    mod_dry_run,       \* settings.dry_run
    mod_rules,         \* detection_rules
    mod_todo,          \* all_rules_to_modify
    mod_idx,           \* position of the loop in all_rules_to_modify
    mod_patches,       \* the PATCH requests sent, in order
    mod_success,       \* success_count
    mod_failed,        \* failed_rules
    \* The threshold prompt of main and validate_threshold (utils/validation.py)
    th_pc,             \* "idle" | "ask" | "call" | "confirm" | "returned" | "raised" | "exit"
    th_input,          \* threshold_input, a string as the sequence of its characters
    th_prompted,       \* validate_threshold has asked "Are you sure you want to continue?"
    th_value,          \* value, once float() has returned
    th_error,          \* the message of the ValueError raised, "" when none
    \* Malicious Sender Extractor (getMaliciousSenders/main.py)
    ms_pc,             \* "idle" | "loop" | "output" | "done" | "exit"
    ms_format,         \* --output-format: "file" | "json"
    ms_offset,         \* offset of the next request
    ms_pages,          \* the responses fetched so far, in order
    ms_sender_emails,  \* sender_emails
    ms_out,            \* the lines written to the file, or the list printed as JSON
    ms_printed,        \* what main printed: "" | "None found" | "Saved" | "json" | "Try again"
    cmp_pc,           \* report compare: "fetch", "compare" or "done"
    cmp_type,         \* obj_type of the loop of compare_instances
    cmp_source,       \* source_objects
    cmp_dest,         \* dest_objects
    cmp_summary,      \* summary returned by compare_objects
    cmp_differences,  \* differences returned by compare_objects
    fn_pc,            \* export file names: "start", "loop" or "done"
    fn_format,        \* output_format: "yaml" or "json"
    fn_todo,          \* the resources the export loop has yet to visit
    fn_existing,      \* existing_files
    fn_files,         \* one entry per resource visited: file name, id, written
    px_pc,            \* rule exclusions: "start", "parse" or "done"
    px_built,         \* the type and value the source string was built from, or None
    px_source,        \* the source string of the exclusion
    px_parsed,        \* what the parser returned
    px_outcome,       \* what the caller did: "applied" or "skipped"
    cf_file,          \* config.json: exists, truncated, content
    cf_pc,            \* per invocation: "load", "open", "dump", "done" or "error"
    cf_config,        \* per invocation: the dict `config` of set_config_value
    cf_log,           \* the file operations in the order they happened
    mx_pc,            \* migrate exclusions, run again: "start", "applying", "returned"
    mx_run,           \* which run of the command this is
    mx_source,        \* the selected exclusions of the source (after the filters)
    mx_dest,          \* the exclusions the destination holds
    mx_dest_before,   \* the exclusions the destination held when the run started
    mx_todo,          \* exclusions perform_migration has yet to process
    mx_posts,         \* the POST /v1/exclusions sent in this run
    mx_results        \* results of perform_migration: created, failed

fetchVars == <<fetch_pc, fetch_server, fetch_extractor, page_size, fetch_offset,
               fetch_total, all_items, fetch_requests>>
clientVars == <<req_pc, max_retries, attempt, req_history, req_sleeps>>
migVars == <<mig_pc, mig_cmd, dry_run, yes, skip, step_idx, dst_objs, queue, results,
             step_result, dest_writes, step_writes, last_write, previewed, confirmed,
             plan_confirmed, trace, overall_results, requested>>
expVars == <<exp_pc, exp_cmd, include_sensitive, user_actions, exp_files, exp_counts>>
urVars == <<ur_pc, ur_server, ur_offset, ur_total, ur_tasks, ur_data, ur_any_ok,
            ur_rounds, ur_report, ur_file>>
hVars == <<h_pc, h_nrules, h_started, h_next, h_jobs, h_requests, h_report>>
cmVars == <<cm_pc, cm_rules, cm_answers, cm_results, cm_trace, cm_exit>>
selVars == <<sel_pc, sel_results, sel_threshold, sel_out>>
modVars == <<mod_pc, mod_dry_run, mod_rules, mod_todo, mod_idx, mod_patches, mod_success,
             mod_failed>>
thVars == <<th_pc, th_input, th_prompted, th_value, th_error>>
msVars == <<ms_pc, ms_format, ms_offset, ms_pages, ms_sender_emails, ms_out, ms_printed>>
cmpVars == <<cmp_pc, cmp_type, cmp_source, cmp_dest, cmp_summary, cmp_differences>>
fnVars == <<fn_pc, fn_format, fn_todo, fn_existing, fn_files>>
pxVars == <<px_pc, px_built, px_source, px_parsed, px_outcome>>
cfVars == <<cf_file, cf_pc, cf_config, cf_log>>
mxVars == <<mx_pc, mx_run, mx_source, mx_dest, mx_dest_before, mx_todo, mx_posts,
           mx_results>>
vars == <<fetchVars, clientVars, migVars, expVars, urVars, hVars, cmVars, selVars, modVars, thVars, msVars, cmpVars, fnVars, pxVars, cfVars, mxVars>>

\* What an operation of one component leaves alone: the other components
restFetch == <<clientVars, migVars, expVars, urVars, hVars, cmVars, selVars, modVars,
    thVars, msVars, cmpVars, fnVars, pxVars, cfVars, mxVars>>
restClient == <<fetchVars, migVars, expVars, urVars, hVars, cmVars, selVars, modVars,
    thVars, msVars, cmpVars, fnVars, pxVars, cfVars, mxVars>>
restMig == <<fetchVars, clientVars, expVars, urVars, hVars, cmVars, selVars, modVars,
    thVars, msVars, cmpVars, fnVars, pxVars, cfVars, mxVars>>
restExp == <<fetchVars, clientVars, migVars, urVars, hVars, cmVars, selVars, modVars,
    thVars, msVars, cmpVars, fnVars, pxVars, cfVars, mxVars>>
restUr == <<fetchVars, clientVars, migVars, expVars, hVars, cmVars, selVars, modVars,
    thVars, msVars, cmpVars, fnVars, pxVars, cfVars, mxVars>>
restHunter == <<fetchVars, clientVars, migVars, expVars, urVars, cmVars, selVars,
    modVars, thVars, msVars, cmpVars, fnVars, pxVars, cfVars, mxVars>>
restCm == <<fetchVars, clientVars, migVars, expVars, urVars, hVars, selVars, modVars,
    thVars, msVars, cmpVars, fnVars, pxVars, cfVars, mxVars>>
restSel == <<fetchVars, clientVars, migVars, expVars, urVars, hVars, cmVars, modVars,
    thVars, msVars, cmpVars, fnVars, pxVars, cfVars, mxVars>>
restMod == <<fetchVars, clientVars, migVars, expVars, urVars, hVars, cmVars, selVars,
    thVars, msVars, cmpVars, fnVars, pxVars, cfVars, mxVars>>
restTh == <<fetchVars, clientVars, migVars, expVars, urVars, hVars, cmVars, selVars,
    modVars, msVars, cmpVars, fnVars, pxVars, cfVars, mxVars>>
restMs == <<fetchVars, clientVars, migVars, expVars, urVars, hVars, cmVars, selVars,
    modVars, thVars, cmpVars, fnVars, pxVars, cfVars, mxVars>>
restCmp == <<fetchVars, clientVars, migVars, expVars, urVars, hVars, cmVars, selVars,
    modVars, thVars, msVars, fnVars, pxVars, cfVars, mxVars>>
restFn == <<fetchVars, clientVars, migVars, expVars, urVars, hVars, cmVars, selVars,
    modVars, thVars, msVars, cmpVars, pxVars, cfVars, mxVars>>
restPx == <<fetchVars, clientVars, migVars, expVars, urVars, hVars, cmVars, selVars,
    modVars, thVars, msVars, cmpVars, fnVars, cfVars, mxVars>>
restCf == <<fetchVars, clientVars, migVars, expVars, urVars, hVars, cmVars, selVars,
    modVars, thVars, msVars, cmpVars, fnVars, pxVars, mxVars>>
restMx == <<fetchVars, clientVars, migVars, expVars, urVars, hVars, cmVars, selVars,
    modVars, thVars, msVars, cmpVars, fnVars, pxVars, cfVars>>

Min(a, b) == IF a <= b THEN a ELSE b
Max(a, b) == IF a >= b THEN a ELSE b
Last(s) == s[Len(s)]

-----------------------------------------------------------------------------
(* Bounds of the model *)
MaxItems == 7          \* largest ordinary instance size explored
MaxPageSize == 3       \* largest ordinary page size explored
MaxRetriesBound == 4   \* largest max_retries explored
MaxSrc == 2            \* most source objects of a subcommand run on its own
MaxDst == 2            \* most destination objects of a subcommand run on its own
MaxAllObjs == 1        \* most objects per side and step inside migrate all
MaxActions == 2        \* most actions the exported instance holds
MaxRounds == 3         \* most iterations of the exporter's loop followed
MaxRules == 3          \* most new rules the hunter finds
MaxPolls == 2          \* most polls of one hunt job followed
MaxDetRules == 2       \* most detection rules the coverage analysis is given
MaxGroups == 2         \* most message groups of a rule, the example apart
MaxInputLen == 3       \* most characters of a typed threshold
MaxPages == 3          \* most pages the sender extractor is followed through

(* Program constants *)
DefaultPageSize == 100
ExampleTotal == DefaultPageSize + 37
LowThreshold == 50
PageLimit == 500

-----------------------------------------------------------------------------
(* PaginatedFetcher.fetch_all *)

\* The endpoint: serves items [offset, offset+limit) of 1..n and reports total = n.
ServerPage(n, offset, limit) ==
    [items |-> [i \in 1..Max(0, Min(limit, n - offset)) |-> offset + i],
     total |-> n]

\* result_extractor: the item list of the response (same in both extractor families).
ResultExtractor(kind, response) == response.items

\* total_extractor: extract_total_auto reads the response's "total";
\* the lambdas passed by migrate exclusions / migrate feeds take the page's length.
TotalExtractor(kind, response) ==
    IF kind = "auto" THEN response.total ELSE Len(response.items)

\* Variant: the loop stops only once more than `total` items were accumulated.
FetchCompleteStrict(items, total, page_items) ==
    Len(items) > total \/ page_items = <<>>

\* `if len(all_items) >= total or not page_items: break`
FetchComplete(items, total, page_items) ==
    Len(items) >= total \/ page_items = <<>>

FetchIdle ==
    /\ fetch_pc = "idle" /\ fetch_server = 0 /\ fetch_extractor = "auto"
    /\ page_size = DefaultPageSize /\ fetch_offset = 0 /\ fetch_total = <<>>
    /\ all_items = <<>> /\ fetch_requests = <<>>

FetchInit ==
    /\ fetch_pc = "loop"
    /\ \E n \in 0..MaxItems \cup {ExampleTotal}, ps \in 1..MaxPageSize \cup {DefaultPageSize} :
         /\ (n = ExampleTotal => ps = DefaultPageSize)
         /\ fetch_server = n
         /\ page_size = ps
    /\ fetch_extractor \in {"auto", "page_len"}
    /\ fetch_offset = 0
    /\ fetch_total = <<>>
    /\ all_items = <<>>
    /\ fetch_requests = <<>>

\* One iteration of the `while True` loop of fetch_all.
FetchPage ==
    /\ fetch_pc = "loop"
    /\ LET response   == ServerPage(fetch_server, fetch_offset, page_size)
           page_items == ResultExtractor(fetch_extractor, response)
           page_total == TotalExtractor(fetch_extractor, response)
           total      == IF fetch_total = <<>> THEN page_total ELSE fetch_total[1]
           items      == all_items \o page_items
       IN  /\ fetch_requests' = Append(fetch_requests, fetch_offset)
           /\ fetch_total' = <<total>>
           /\ all_items' = items
           /\ IF FetchComplete(items, total, page_items)
                 THEN /\ fetch_pc' = "done"
                      /\ fetch_offset' = fetch_offset
                 ELSE /\ fetch_pc' = "loop"
                      /\ fetch_offset' = fetch_offset + page_size
    /\ UNCHANGED <<fetch_server, fetch_extractor, page_size, restFetch>>

-----------------------------------------------------------------------------
(* ApiClient._make_request *)

RetryOnCodes == {429, 500, 502, 503, 504}

\* What one requests.request can produce: an HTTP response (status, and whether
\* its body parses as JSON) or no response at all (connection error, timeout),
\* written as status 0.
NoResponse == [status |-> 0, json_ok |-> FALSE]
Answers ==
    {[status |-> s, json_ok |-> TRUE] : s \in {200, 404, 429, 503}}
      \cup {[status |-> 200, json_ok |-> FALSE], NoResponse}

\* Variant: the loop runs one attempt more than max_retries.
InRangeInclusive(att, maxr) == att <= maxr

\* `for attempt in range(self.max_retries)`
InRange(att, maxr) == att < maxr

\* `response.status_code in retry_on_codes and attempt < self.max_retries - 1`
RetriesStatus(a, att, maxr) ==
    a.status \in RetryOnCodes /\ att < maxr - 1

\* raise_for_status passes and response.json() parses: the call returns
ReturnsJson(a) == a.status \div 100 = 2 /\ a.json_ok

\* Variant: client errors are not told apart from other failures.
ClientErrorRetried(a) == FALSE

\* `status_code // 100 == 4 and status_code not in retry_on_codes`, on an HTTPError
ClientErrorNoRetry(a) ==
    a.status \div 100 = 4 /\ a.status \notin RetryOnCodes

\* `if attempt >= self.max_retries - 1: raise`
LastAttempt(att, maxr) == att >= maxr - 1

ClientIdle ==
    /\ req_pc = "idle" /\ max_retries = 3 /\ attempt = 0
    /\ req_history = <<>> /\ req_sleeps = 0

ClientInit ==
    /\ req_pc = "loop"
    /\ max_retries \in 0..MaxRetriesBound
    /\ attempt = 0
    /\ req_history = <<>>
    /\ req_sleeps = 0

\* One iteration of `for attempt in range(self.max_retries)`.
Attempt ==
    /\ req_pc = "loop"
    /\ InRange(attempt, max_retries)
    /\ \E a \in Answers :
         /\ req_history' = Append(req_history, a)
         /\ IF RetriesStatus(a, attempt, max_retries)
              THEN \* sleep, continue
                   /\ req_sleeps' = req_sleeps + 1
                   /\ attempt' = attempt + 1
                   /\ req_pc' = "loop"
              ELSE IF ReturnsJson(a)
              THEN \* raise_for_status passes, response.json() is returned
                   /\ req_pc' = "returned"
                   /\ UNCHANGED <<req_sleeps, attempt>>
              ELSE \* HTTPError, ValueError or another RequestException is caught
                   IF ClientErrorNoRetry(a) \/ LastAttempt(attempt, max_retries)
                   THEN /\ req_pc' = "raised"
                        /\ UNCHANGED <<req_sleeps, attempt>>
                   ELSE /\ req_sleeps' = req_sleeps + 1
                        /\ attempt' = attempt + 1
                        /\ req_pc' = "loop"
    /\ UNCHANGED <<max_retries, restClient>>

\* The loop ran out without returning or raising: `raise ApiError("Maximum retry attempts exceeded")`.
Exhausted ==
    /\ req_pc = "loop"
    /\ ~InRange(attempt, max_retries)
    /\ req_pc' = "raised"
    /\ UNCHANGED <<max_retries, attempt, req_history, req_sleeps, restClient>>

-----------------------------------------------------------------------------
(* The migrate subcommands: data and pure functions *)

\* migration_steps of migrate all, in list order
StepNames == <<"actions", "lists", "exclusions", "feeds", "rules",
               "actions-to-rules", "rule-exclusions">>
StepSet == {StepNames[i] : i \in 1..Len(StepNames)}

\* An object as the API returns it, reduced to what matching reads:
\*   name - its name (for a rule exclusion: the name of its originating rule)
\*   ver  - source_md5 of a rule (of the originating rule for a rule exclusion),
\*          config of an action, git settings of a feed, entries or provider
\*          group of a list
\*   aux  - lists: the list is a user_group list;
\*          actions-to-rules: some action of the rule has a (name, type) match
\*          among the destination actions;
\*          rule-exclusions: the source text has one of the three known shapes
\* A destination object's id is its position in the destination's listing.
Names == {"a", "b"}
Vers == {"m1", "m2"}
UsesAux(step) == step \in {"lists", "actions-to-rules", "rule-exclusions"}
SrcPool(step) ==
    [name : Names, ver : Vers, aux : IF UsesAux(step) THEN BOOLEAN ELSE {FALSE}]
DstPool == [name : Names, ver : Vers]
SeqsUpTo(S, n) == UNION {[1..k -> S] : k \in 0..n}

\* {obj.get("name"): obj for obj in dest}: the last object of a name wins
HasName(dst, name) == \E i \in 1..Len(dst) : dst[i].name = name
LastByName(dst, name) ==
    CHOOSE i \in 1..Len(dst) :
        /\ dst[i].name = name
        /\ \A j \in (i + 1)..Len(dst) : dst[j].name # name

\* {(rule.get("name"), rule.get("source_md5")): rule for rule in dest_rules}
HasKey(dst, name, ver) ==
    \E i \in 1..Len(dst) : dst[i].name = name /\ dst[i].ver = ver
LastByKey(dst, name, ver) ==
    CHOOSE i \in 1..Len(dst) :
        /\ dst[i].name = name /\ dst[i].ver = ver
        /\ \A j \in (i + 1)..Len(dst) : ~(dst[j].name = name /\ dst[j].ver = ver)

Op(kind, obj, target) == [kind |-> kind, obj |-> obj, target |-> target]

\* categorize_actions / categorize_lists / categorize_feeds: by name
IsNewByName(o, dst) == ~HasName(dst, o.name)
IsUpdateByName(o, dst) == HasName(dst, o.name)

\* match_rules_and_categorize: update on a (name, source_md5) match, skipped on a
\* name match with another source_md5, new otherwise
IsUpdateRule(o, dst) == HasKey(dst, o.name, o.ver)
IsSkippedRule(o, dst) == ~HasKey(dst, o.name, o.ver) /\ HasName(dst, o.name)
IsNewRule(o, dst) == ~HasKey(dst, o.name, o.ver) /\ ~HasName(dst, o.name)

\* process_update_rule: existing_map.get(rule_name), existing_map keyed by name
ExistingRule(dst, o) == LastByName(dst, o.name)

\* match_rules_and_actions: the destination rule of the (name, source_md5) key,
\* kept when at least one action matched
IsRuleToUpdate(o, dst) == HasKey(dst, o.name, o.ver) /\ o.aux

\* match_exclusions_to_rules: the destination rule of the originating rule's
\* (name, source_md5) key, kept when the source text parses
IsExclusionToApply(o, dst) == HasKey(dst, o.name, o.ver) /\ o.aux

\* apply_rule_exclusions: exclusions grouped by destination rule id, the groups in
\* order of first appearance
RECURSIVE GroupByRule(_)
GroupByRule(ops) ==
    IF ops = <<>> THEN <<>>
    ELSE LET t == ops[1].target
         IN  SelectSeq(ops, LAMBDA o : o.target = t)
               \o GroupByRule(SelectSeq(ops, LAMBDA o : o.target # t))

MapSeq(s, F(_)) == [i \in 1..Len(s) |-> F(s[i])]

\* What perform_migration (apply_rule_action_associations, apply_rule_exclusions)
\* processes, in order: the new objects, then the updates.
Plan(step, src, dst) ==
    CASE step \in {"actions", "lists", "feeds"} ->
           MapSeq(SelectSeq(src, LAMBDA o : IsNewByName(o, dst)),
                  LAMBDA o : Op("new", o, 0))
             \o MapSeq(SelectSeq(src, LAMBDA o : IsUpdateByName(o, dst)),
                       LAMBDA o : Op("update", o, LastByName(dst, o.name)))
      [] step = "exclusions" ->
           MapSeq(src, LAMBDA o : Op("new", o, 0))
      [] step = "rules" ->
           MapSeq(SelectSeq(src, LAMBDA o : IsNewRule(o, dst)),
                  LAMBDA o : Op("new", o, 0))
             \o MapSeq(SelectSeq(src, LAMBDA o : IsUpdateRule(o, dst)),
                       LAMBDA o : Op("update", o, ExistingRule(dst, o)))
      [] step = "actions-to-rules" ->
           MapSeq(SelectSeq(src, LAMBDA o : IsRuleToUpdate(o, dst)),
                  LAMBDA o : Op("update", o, LastByKey(dst, o.name, o.ver)))
      [] step = "rule-exclusions" ->
           GroupByRule(
             MapSeq(SelectSeq(src, LAMBDA o : IsExclusionToApply(o, dst)),
                    LAMBDA o : Op("add-exclusion", o, LastByKey(dst, o.name, o.ver))))

\* The subcommand's result when nothing is left to migrate after matching
NothingToMigrate(step) ==
    IF step \in {"actions-to-rules", "rule-exclusions"} THEN "error" ELSE "success"

\* The HTTP method an operation sends to the destination, "none" when the object
\* is left alone: actions and feeds are patched only when they differ, lists only
\* when entries or provider group differ, rules always.
MethodOf(step, op, dst) ==
    CASE op.kind = "new" -> "POST"
      [] op.kind = "add-exclusion" -> "POST"
      [] op.kind = "update" /\ step \in {"actions", "feeds", "lists"} ->
           IF op.obj.ver # dst[op.target].ver THEN "PATCH" ELSE "none"
      [] op.kind = "update" /\ step \in {"rules", "actions-to-rules"} -> "PATCH"

NoWrite == [method |-> "none", step |-> "none", name |-> "", ver |-> "",
            target |-> 0, target_name |-> "", target_ver |-> ""]
NoResults == [created |-> 0, updated |-> 0, skipped |-> 0, failed |-> 0]
NoResult == [ok |-> TRUE, msg |-> "none"]

\* CommandResult.success(...) / CommandResult.error(...)
Success(msg) == [ok |-> TRUE, msg |-> msg]
Error(msg) == [ok |-> FALSE, msg |-> msg]

\* The write an operation sends: method, endpoint family (the step), the source
\* object whose payload is sent and the destination object of the URL.
WriteOf(step, op, dst) ==
    [method |-> MethodOf(step, op, dst), step |-> step,
     name |-> op.obj.name, ver |-> op.obj.ver, target |-> op.target,
     target_name |-> IF op.target = 0 THEN "" ELSE dst[op.target].name,
     target_ver |-> IF op.target = 0 THEN "" ELSE dst[op.target].ver]

-----------------------------------------------------------------------------
(* The migrate subcommands: actions *)

\* The --skip sets explored
SkipChoices ==
    {{}, {"actions"}, {"feeds", "rule-exclusions"}, {"rules", "actions-to-rules"}, StepSet}
      \cup {StepSet \ {s} : s \in StepSet}

CurStep == IF mig_cmd = "all" THEN StepNames[step_idx] ELSE mig_cmd

\* formatter.prompt_confirmation: what the operator answers; always True under --yes
PromptAnswers(y) == IF y THEN {TRUE} ELSE BOOLEAN

\* Variant: the operator's answer is not looked at.
ProceedsAlways(answer) == TRUE

\* `if not formatter.prompt_confirmation(...): return CommandResult.success("Migration canceled by user.")`
Proceeds(answer) == answer

\* Variant: migrate all calls the step without handing dry_run down.
StepDryRunDropped(dry) == FALSE

\* `dry_run=dry_run` in the call of step["function"] by migrate all
StepDryRunArg(dry) == dry

\* Variant: --skip is not honoured.
NeverSkipped(step, skp) == FALSE

\* `"skipped": "<name>" in skip`
IsSkipped(step, skp) == step \in skp

Event(ev, step) == [ev |-> ev, step |-> step]

MigIdle ==
    /\ mig_pc = "idle" /\ mig_cmd = "all" /\ dry_run = FALSE /\ yes = FALSE
    /\ skip = {} /\ step_idx = 0 /\ dst_objs = <<>> /\ queue = <<>>
    /\ results = NoResults /\ step_result = NoResult
    /\ dest_writes = 0 /\ step_writes = 0 /\ last_write = NoWrite
    /\ previewed = FALSE /\ confirmed = "none" /\ plan_confirmed = "none"
    /\ trace = <<>> /\ overall_results = [s \in StepSet |-> "none"]
    /\ requested = {}

MigInit ==
    /\ mig_pc = "start"
    /\ mig_cmd \in StepSet \cup {"all"}
    /\ dry_run \in BOOLEAN
    /\ yes \in BOOLEAN
    /\ skip \in (IF mig_cmd = "all" THEN SkipChoices ELSE {{}})
    /\ step_idx = 0 /\ dst_objs = <<>> /\ queue = <<>>
    /\ results = NoResults /\ step_result = NoResult
    /\ dest_writes = 0 /\ step_writes = 0 /\ last_write = NoWrite
    /\ previewed = FALSE /\ confirmed = "none" /\ plan_confirmed = "none"
    /\ trace = <<>> /\ overall_results = [s \in StepSet |-> "none"]
    /\ requested = {}

\* The subcommand returns `res`; its locals are gone.
Return(res) ==
    /\ mig_pc' = "returned"
    /\ step_result' = res
    /\ dst_objs' = <<>>
    /\ queue' = <<>>

\* migrate_<step>_between_instances from its first line to the preview: fetch and
\* filter the source objects, fetch the destination objects, categorize, return
\* early when nothing is to be done or under dry_run, otherwise output the preview.
SubcommandStart(step, dry, n, m) ==
    /\ requested' = requested \cup {step}
    /\ confirmed' = "none"
    /\ step_writes' = 0
    /\ results' = NoResults
    /\ \/ \* a fetch raises: the outer `except Exception` returns CommandResult.error
          /\ Return(Error("exception"))
          /\ previewed' = FALSE
       \/ \E src \in SeqsUpTo(SrcPool(step), n),
             dst \in (IF step = "exclusions" THEN {<<>>} ELSE SeqsUpTo(DstPool, m)) :
            LET plan == Plan(step, src, dst)
            IN  IF src = <<>>
                  THEN Return(Error("no_source")) /\ previewed' = FALSE
                ELSE IF plan = <<>>
                  THEN /\ Return([ok |-> NothingToMigrate(step) = "success",
                                  msg |-> "nothing"])
                       /\ previewed' = FALSE
                ELSE IF dry
                  THEN Return(Success("dry_run")) /\ previewed' = FALSE
                ELSE /\ previewed' = TRUE
                     /\ mig_pc' = "previewed"
                     /\ dst_objs' = dst
                     /\ queue' = plan
                     /\ step_result' = NoResult

\* A migrate subcommand invoked on its own (the click command calls the
\* implementation function with the --dry-run flag).
Standalone ==
    /\ mig_pc = "start"
    /\ mig_cmd # "all"
    /\ SubcommandStart(mig_cmd, dry_run, MaxSrc, MaxDst)
    /\ UNCHANGED <<mig_cmd, dry_run, yes, skip, step_idx, dest_writes, last_write,
                   plan_confirmed, trace, overall_results, restMig>>

\* The subcommand's confirmation prompt.
SubConfirm ==
    /\ mig_pc = "previewed"
    /\ \E answer \in PromptAnswers(yes) :
         /\ confirmed' = IF answer THEN "yes" ELSE "no"
         /\ IF Proceeds(answer)
              THEN /\ mig_pc' = "applying"
                   /\ UNCHANGED <<step_result, dst_objs, queue>>
              ELSE Return(Success("canceled"))
    /\ UNCHANGED <<mig_cmd, dry_run, yes, skip, step_idx, results, dest_writes,
                   step_writes, last_write, previewed, plan_confirmed, trace,
                   overall_results, requested, restMig>>

Bump(res, field) == [res EXCEPT ![field] = @ + 1]
Tally(kind) == IF kind = "new" THEN "created" ELSE "updated"
GroupSize(q) == Cardinality({i \in 1..Len(q) : q[i].target = q[1].target})

\* perform_migration processes the next object (for rule-exclusions: the next
\* destination rule with all its exclusions, process_rule_exclusion_update).
SubApply ==
    /\ mig_pc = "applying"
    /\ queue # <<>>
    /\ LET step == CurStep
           op   == queue[1]
           w    == WriteOf(step, op, dst_objs)
       IN  IF step = "rule-exclusions"
             THEN LET k == GroupSize(queue)
                  IN  /\ queue' = SubSeq(queue, k + 1, Len(queue))
                      /\ dest_writes' = dest_writes + k
                      /\ step_writes' = step_writes + k
                      /\ last_write' = WriteOf(step, queue[k], dst_objs)
                      /\ \E succeeded \in 0..k :
                           results' = Bump(results, IF succeeded > 0 THEN "updated"
                                                                      ELSE "failed")
             ELSE /\ queue' = Tail(queue)
                  /\ \/ \* lists: the provider group of a user_group list is not in
                        \* the destination, or the GET of the destination list's
                        \* entries raises: recorded as failed, nothing is written
                        /\ step = "lists"
                        /\ op.obj.aux \/ op.kind = "update"
                        /\ results' = Bump(results, "failed")
                        /\ UNCHANGED <<dest_writes, step_writes, last_write>>
                     \/ /\ w.method = "none"
                        /\ results' = Bump(results, "skipped")
                        /\ UNCHANGED <<dest_writes, step_writes, last_write>>
                     \/ /\ w.method # "none"
                        /\ dest_writes' = dest_writes + 1
                        /\ step_writes' = step_writes + 1
                        /\ last_write' = w
                        /\ \E ok \in BOOLEAN :
                             results' = Bump(results, IF ok THEN Tally(op.kind)
                                                            ELSE "failed")
    /\ UNCHANGED <<mig_pc, mig_cmd, dry_run, yes, skip, step_idx, dst_objs,
                   step_result, previewed, confirmed, plan_confirmed, trace,
                   overall_results, requested, restMig>>

\* perform_migration is through: "Migration completed: ..."
SubFinish ==
    /\ mig_pc = "applying"
    /\ queue = <<>>
    /\ Return(Success("completed"))
    /\ UNCHANGED <<mig_cmd, dry_run, yes, skip, step_idx, results, dest_writes,
                   step_writes, last_write, previewed, confirmed, plan_confirmed,
                   trace, overall_results, requested, restMig>>

\* The click command outputs the result of its implementation function.
Output ==
    /\ mig_pc = "returned"
    /\ mig_cmd # "all"
    /\ mig_pc' = "done"
    /\ UNCHANGED <<mig_cmd, dry_run, yes, skip, step_idx, dst_objs, queue,
                   results, step_result, dest_writes, step_writes, last_write,
                   previewed, confirmed, plan_confirmed, trace, overall_results,
                   requested, restMig>>

\* migrate all: GET /v1/me on the source, then on the destination; a failure of
\* either ends the command with CommandResult.error.
AllValidate ==
    /\ mig_pc = "start"
    /\ mig_cmd = "all"
    /\ \E src_ok \in BOOLEAN, dst_ok \in BOOLEAN :
         /\ trace' = IF src_ok THEN <<Event("GET /v1/me", "source"),
                                      Event("GET /v1/me", "destination")>>
                               ELSE <<Event("GET /v1/me", "source")>>
         /\ IF src_ok /\ dst_ok
              THEN mig_pc' = "validated" /\ UNCHANGED step_result
              ELSE mig_pc' = "done" /\ step_result' = Error("exception")
    /\ UNCHANGED <<mig_cmd, dry_run, yes, skip, step_idx, dst_objs, queue,
                   results, dest_writes, step_writes, last_write, previewed,
                   confirmed, plan_confirmed, overall_results, requested, restMig>>

\* migrate all: output the plan, then prompt for confirmation.
AllConfirm ==
    /\ mig_pc = "validated"
    /\ \E answer \in PromptAnswers(yes) :
         /\ plan_confirmed' = IF answer THEN "yes" ELSE "no"
         /\ trace' = trace \o <<Event("plan", "all"), Event("confirm", "all")>>
         /\ IF Proceeds(answer)
              THEN mig_pc' = "steps" /\ UNCHANGED step_result
              ELSE mig_pc' = "done" /\ step_result' = Success("canceled")
    /\ UNCHANGED <<mig_cmd, dry_run, yes, skip, step_idx, dst_objs, queue,
                   results, dest_writes, step_writes, last_write, previewed,
                   confirmed, overall_results, requested, restMig>>

\* migrate all: the next step is named by --skip.
AllSkipStep ==
    /\ mig_pc = "steps"
    /\ step_idx < Len(StepNames)
    /\ IsSkipped(StepNames[step_idx + 1], skip)
    /\ step_idx' = step_idx + 1
    /\ overall_results' = [overall_results EXCEPT ![StepNames[step_idx + 1]] = "skipped"]
    /\ trace' = Append(trace, Event("skip", StepNames[step_idx + 1]))
    /\ UNCHANGED <<mig_pc, mig_cmd, dry_run, yes, skip, dst_objs, queue, results,
                   step_result, dest_writes, step_writes, last_write, previewed,
                   confirmed, plan_confirmed, requested, restMig>>

\* migrate all: the next step is called.
AllInvokeStep ==
    /\ mig_pc = "steps"
    /\ step_idx < Len(StepNames)
    /\ ~IsSkipped(StepNames[step_idx + 1], skip)
    /\ step_idx' = step_idx + 1
    /\ trace' = Append(trace, Event("invoke", StepNames[step_idx + 1]))
    /\ SubcommandStart(StepNames[step_idx + 1], StepDryRunArg(dry_run),
                       MaxAllObjs, MaxAllObjs)
    /\ UNCHANGED <<mig_cmd, dry_run, yes, skip, dest_writes, last_write,
                   plan_confirmed, overall_results, restMig>>

\* migrate all: the step has returned; its result is recorded and its frame is gone.
AllRecord ==
    /\ mig_pc = "returned"
    /\ mig_cmd = "all"
    /\ overall_results' = [overall_results EXCEPT ![StepNames[step_idx]] = "success"]
    /\ trace' = Append(trace, Event("return", StepNames[step_idx]))
    /\ mig_pc' = "steps"
    /\ results' = NoResults /\ step_result' = NoResult
    /\ step_writes' = 0 /\ last_write' = NoWrite
    /\ previewed' = FALSE /\ confirmed' = "none"
    /\ UNCHANGED <<mig_cmd, dry_run, yes, skip, step_idx, dst_objs, queue,
                   dest_writes, plan_confirmed, requested, restMig>>

\* migrate all: every step is through; the summary is returned and output.
AllSummary ==
    /\ mig_pc = "steps"
    /\ step_idx = Len(StepNames)
    /\ mig_pc' = "done"
    /\ UNCHANGED <<mig_cmd, dry_run, yes, skip, step_idx, dst_objs, queue,
                   results, step_result, dest_writes, step_writes, last_write,
                   previewed, confirmed, plan_confirmed, trace, overall_results,
                   requested, restMig>>

-----------------------------------------------------------------------------
(* export actions and export all: redaction of action configurations *)

\* Strings whose characters the code looks at are sequences of characters.
Authorization == <<"A", "u", "t", "h", "o", "r", "i", "z", "a", "t", "i", "o", "n">>
XRequestId == <<"X", "-", "R", "e", "q", "u", "e", "s", "t", "-", "I", "d">>
KeySecret == <<"s", "e", "c", "r", "e", "t">>
KeyEndpoint == <<"e", "n", "d", "p", "o", "i", "n", "t">>
KeyCustomHeaders == <<"c", "u", "s", "t", "o", "m", "_", "h", "e", "a", "d", "e", "r", "s">>

Redacted == "[REDACTED]"

\* str.lower() on the characters that occur
LowerChar(c) ==
    CASE c = "A" -> "a" [] c = "X" -> "x" [] c = "R" -> "r" [] c = "I" -> "i"
      [] OTHER -> c
Lower(str) == [i \in 1..Len(str) |-> LowerChar(str[i])]

\* `needle in hay`
Contains(hay, needle) ==
    \E i \in 0..(Len(hay) - Len(needle)) : SubSeq(hay, i + 1, i + Len(needle)) = needle

\* sensitive_headers of Action._redact_config
SensitiveHeaders ==
    {<<"a", "u", "t", "h", "o", "r", "i", "z", "a", "t", "i", "o", "n">>,
     <<"x", "-", "a", "p", "i", "-", "k", "e", "y">>,
     <<"a", "p", "i", "-", "k", "e", "y">>,
     <<"t", "o", "k", "e", "n">>,
     <<"x", "-", "a", "u", "t", "h">>,
     <<"a", "u", "t", "h">>,
     <<"s", "e", "c", "r", "e", "t">>,
     <<"p", "a", "s", "s", "w", "o", "r", "d">>,
     <<"k", "e", "y">>}

\* sensitive_keys of Action._redact_config
SensitiveKeys ==
    {<<"s", "e", "c", "r", "e", "t">>,
     <<"p", "a", "s", "s", "w", "o", "r", "d">>,
     <<"t", "o", "k", "e", "n">>,
     <<"a", "p", "i", "_", "k", "e", "y">>,
     <<"k", "e", "y">>,
     <<"a", "u", "t", "h">>}

\* EXCLUDED_ACTION_TYPES (one representative)
ExcludedActionTypes == {"quarantine_message"}

AnySensitive(name, table) == \E sensitive \in table : Contains(Lower(name), sensitive)

\* An action's config: the keys it has, the value of "secret" and the custom headers.
HeaderPool ==
    {[name |-> Authorization, value |-> "Bearer t0k3n"],
     [name |-> XRequestId, value |-> "42"]}
ConfigPool ==
    [keys : {{KeyEndpoint}, {KeyEndpoint, KeySecret}, {KeyEndpoint, KeyCustomHeaders},
             {KeyEndpoint, KeySecret, KeyCustomHeaders}},
     secret : {"s3cr3t"},
     endpoint : {"https://hooks.example.com"},
     custom_headers : {<<>>} \cup {<<h>> : h \in HeaderPool}
                        \cup {<<g, h>> : g, h \in HeaderPool}]
ActionPool ==
    {a \in [type : {"webhook", "slack", "quarantine_message"}, config : ConfigPool] :
        /\ (KeyCustomHeaders \in a.config.keys) = (a.config.custom_headers # <<>>)
        /\ a.type = "quarantine_message" => a.config.keys = {KeyEndpoint}}

RedactHeader(header) ==
    IF AnySensitive(header.name, SensitiveHeaders)
      THEN [header EXCEPT !.value = Redacted]
      ELSE header

\* Action._redact_config, the part for webhook actions
RedactWebhook(type, config) ==
    IF type = "webhook"
      THEN [config EXCEPT
              !.secret = IF KeySecret \in config.keys THEN Redacted ELSE @,
              !.custom_headers = [i \in 1..Len(config.custom_headers) |->
                                     RedactHeader(config.custom_headers[i])]]
      ELSE config

\* Action._redact_config, the generic part: every key that contains a sensitive word
RedactGeneric(config) ==
    [config EXCEPT
       !.secret = IF KeySecret \in config.keys /\ AnySensitive(KeySecret, SensitiveKeys)
                    THEN Redacted ELSE @,
       !.endpoint = IF AnySensitive(KeyEndpoint, SensitiveKeys) THEN Redacted ELSE @,
       !.custom_headers =
            IF KeyCustomHeaders \in config.keys
                 /\ AnySensitive(KeyCustomHeaders, SensitiveKeys)
              THEN <<[name |-> <<>>, value |-> Redacted]>> ELSE @]

RedactConfig(type, config) == RedactGeneric(RedactWebhook(type, config))

\* A Python value passed as include_sensitive: a bool, or some other object.
Bool(b) == [kind |-> "bool", val |-> b]
FormatterObject == [kind |-> "formatter", val |-> TRUE]
Truthy(v) == IF v.kind = "bool" THEN v.val ELSE TRUE

\* Action.to_dict(include_sensitive) followed by convert_action_to_export_format
ConvertActionToExportFormat(action, incl) ==
    [type |-> action.type,
     config |-> IF Truthy(incl) THEN action.config
                ELSE RedactConfig(action.type, action.config)]

\* The value export_actions_impl receives as its parameter include_sensitive:
\* `export actions` passes the flag; `export all` passes api_key, region, directory,
\* output_format and formatter by position, so the formatter lands there.
IncludeSensitiveParam(cmd, flag) ==
    IF cmd = "actions" THEN Bool(flag) ELSE FormatterObject

\* has_sensitive of export_actions_impl
HasSensitive(action) ==
    /\ action.type = "webhook"
    /\ \/ KeySecret \in action.config.keys
       \/ KeyCustomHeaders \in action.config.keys
       \/ \E key \in action.config.keys : AnySensitive(key, SensitiveKeys)

NoCounts == [exported |-> 0, failed |-> 0, redacted |-> 0]

ExpIdle ==
    /\ exp_pc = "idle" /\ exp_cmd = "actions" /\ include_sensitive = FALSE
    /\ user_actions = <<>> /\ exp_files = <<>> /\ exp_counts = NoCounts

ExpInit ==
    /\ exp_pc = "start"
    /\ exp_cmd \in {"actions", "all"}
    /\ include_sensitive \in BOOLEAN
    /\ user_actions = <<>> /\ exp_files = <<>> /\ exp_counts = NoCounts

\* export_actions_impl up to its loop: fetch all actions, drop the system types.
ExportFetch ==
    /\ exp_pc = "start"
    /\ \/ \* the fetch raises: zero counts are returned
          /\ exp_pc' = "done"
          /\ UNCHANGED user_actions
       \/ \E all_actions \in SeqsUpTo(ActionPool, MaxActions) :
            LET kept == SelectSeq(all_actions,
                                  LAMBDA a : a.type \notin ExcludedActionTypes)
            IN  /\ user_actions' = kept
                /\ exp_pc' = IF kept = <<>> THEN "done" ELSE "loop"
    /\ UNCHANGED <<exp_cmd, include_sensitive, exp_files, exp_counts, restExp>>

\* One iteration of the export loop: convert the action and write its file.
ExportAction ==
    /\ exp_pc = "loop"
    /\ user_actions # <<>>
    /\ LET action_data == user_actions[1]
           incl == IncludeSensitiveParam(exp_cmd, include_sensitive)
           export_data == ConvertActionToExportFormat(action_data, incl)
           red == IF ~Truthy(incl) /\ HasSensitive(action_data) THEN 1 ELSE 0
       IN  \/ /\ exp_files' = Append(exp_files, export_data)
              /\ exp_counts' = [exp_counts EXCEPT !.exported = @ + 1,
                                                  !.redacted = @ + red]
           \/ \* writing the file raises
              /\ exp_counts' = [exp_counts EXCEPT !.failed = @ + 1,
                                                  !.redacted = @ + red]
              /\ UNCHANGED exp_files
    /\ user_actions' = Tail(user_actions)
    /\ UNCHANGED <<exp_pc, exp_cmd, include_sensitive, restExp>>

\* The loop is through: the counts are returned.
ExportReturn ==
    /\ exp_pc = "loop"
    /\ user_actions = <<>>
    /\ exp_pc' = "done"
    /\ UNCHANGED <<exp_cmd, include_sensitive, user_actions, exp_files,
                   exp_counts, restExp>>

-----------------------------------------------------------------------------
(* User-Reported Message Exporter *)

CHUNK_SIZE == 25
ParallelChunks == 5

\* Instance sizes explored
ServerTotals ==
    {0, 1, CHUNK_SIZE, CHUNK_SIZE + 1, ParallelChunks * CHUNK_SIZE,
     ParallelChunks * CHUNK_SIZE + 1, 2 * ParallelChunks * CHUNK_SIZE + 10}

\* `while total is None or offset < total`
LoopCondition(total, offset) == IF total = <<>> THEN TRUE ELSE offset < total[1]

\* The offsets of the tasks one iteration creates
RECURSIVE TaskOffsets(_, _, _)
TaskOffsets(chunk_offset, stop, total) ==
    IF chunk_offset >= stop THEN <<>>
    ELSE IF total # <<>> /\ chunk_offset >= total[1] THEN <<>>
    ELSE <<chunk_offset>> \o TaskOffsets(chunk_offset + CHUNK_SIZE, stop, total)

\* Rows of the page at `offset` of an instance of n message groups
PageRows(n, offset) == Max(0, Min(CHUNK_SIZE, n - offset))

\* The processing of the gathered results, in order: the first success sets total,
\* every success appends its rows.
RECURSIVE ProcessResults(_, _, _, _)
ProcessResults(tasks, n, total, rows) ==
    IF tasks = <<>> THEN [total |-> total, rows |-> rows]
    ELSE IF tasks[1].state = "ok"
      THEN ProcessResults(Tail(tasks), n,
                          IF total = <<>> THEN <<n>> ELSE total,
                          rows + PageRows(n, tasks[1].offset))
      ELSE ProcessResults(Tail(tasks), n, total, rows)

\* Variant: the offset always advances by a full round.
NextOffsetFullRound(offset, ntasks) == offset + ParallelChunks * CHUNK_SIZE

\* `offset += len(tasks) * CHUNK_SIZE`
NextOffset(offset, ntasks) == offset + ntasks * CHUNK_SIZE

UrIdle ==
    /\ ur_pc = "idle" /\ ur_server = 0 /\ ur_offset = 0 /\ ur_total = <<>>
    /\ ur_tasks = <<>> /\ ur_data = 0 /\ ur_any_ok = FALSE /\ ur_rounds = 0
    /\ ur_report = "none" /\ ur_file = FALSE

UrInit ==
    /\ ur_pc = "loop" /\ ur_server \in ServerTotals /\ ur_offset = 0 /\ ur_total = <<>>
    /\ ur_tasks = <<>> /\ ur_data = 0 /\ ur_any_ok = FALSE /\ ur_rounds = 0
    /\ ur_report = "none" /\ ur_file = FALSE

\* The loop goes on: the tasks of the iteration are created.
RoundIssue ==
    /\ ur_pc = "loop"
    /\ LoopCondition(ur_total, ur_offset)
    /\ ur_rounds < MaxRounds
    /\ ur_tasks' = MapSeq(TaskOffsets(ur_offset, ur_offset + ParallelChunks * CHUNK_SIZE,
                                      ur_total),
                          LAMBDA o : [offset |-> o, state |-> "pending"])
    /\ ur_rounds' = ur_rounds + 1
    /\ ur_pc' = "gather"
    /\ UNCHANGED <<ur_server, ur_offset, ur_total, ur_data, ur_any_ok, ur_report,
                   ur_file, restUr>>

\* fetch_data of one task completes: the JSON of a 200, or None.
FetchData ==
    /\ ur_pc = "gather"
    /\ \E i \in 1..Len(ur_tasks), outcome \in {"ok", "failed"} :
         /\ ur_tasks[i].state = "pending"
         /\ ur_tasks' = [ur_tasks EXCEPT ![i].state = outcome]
         /\ ur_any_ok' = (ur_any_ok \/ outcome = "ok")
    /\ UNCHANGED <<ur_pc, ur_server, ur_offset, ur_total, ur_data, ur_rounds,
                   ur_report, ur_file, restUr>>

\* asyncio.gather has every result: process them, advance the offset, sleep.
RoundProcess ==
    /\ ur_pc = "gather"
    /\ \A i \in 1..Len(ur_tasks) : ur_tasks[i].state # "pending"
    /\ LET r == ProcessResults(ur_tasks, ur_server, ur_total, ur_data)
       IN  ur_total' = r.total /\ ur_data' = r.rows
    /\ ur_offset' = NextOffset(ur_offset, Len(ur_tasks))
    /\ ur_tasks' = <<>>
    /\ ur_pc' = "loop"
    /\ UNCHANGED <<ur_server, ur_any_ok, ur_rounds, ur_report, ur_file, restUr>>

\* The loop is left; main reports that there is no data, or writes the file.
UrFinish ==
    /\ ur_pc = "loop"
    /\ ~LoopCondition(ur_total, ur_offset)
    /\ ur_pc' = "done"
    /\ IF ur_data = 0
         THEN ur_report' = "no_data" /\ UNCHANGED ur_file
         ELSE ur_report' = "complete" /\ ur_file' = TRUE
    /\ UNCHANGED <<ur_server, ur_offset, ur_total, ur_tasks, ur_data, ur_any_ok,
                   ur_rounds, restUr>>

-----------------------------------------------------------------------------
(* New-Rule Hunter: start, poll, results, report *)

\* What GET /v0/hunt-jobs/{id} may answer: a status, or the request raises
PollAnswers == {"PENDING", "RUNNING", "COMPLETED", "ERROR", "exception"}

\* HuntJob(...) as start_hunt builds it, with the state of its poll_job coroutine:
\* pc "poll" (about to request), "sleep" (in asyncio.sleep(5)), "done" (returned)
NewJob(rule) ==
    [rule |-> rule, status |-> "PENDING", pc |-> "poll", polls |-> 0, sleeps |-> 0,
     raised |-> FALSE, results |-> "none"]

\* `if status == "COMPLETED" or status == "ERROR": break`
IsTerminal(status) == status \in {"COMPLETED", "ERROR"}

\* Variant: an exception while polling is retried after the sleep.
AfterPollRetrying(job, answer) ==
    IF answer = "exception"
      THEN [job EXCEPT !.polls = @ + 1, !.raised = TRUE, !.pc = "sleep"]
      ELSE [job EXCEPT !.polls = @ + 1, !.status = answer,
                       !.pc = IF IsTerminal(answer) THEN "done" ELSE "sleep"]

\* One iteration of poll_job's loop up to its break or its sleep
AfterPoll(job, answer) ==
    IF answer = "exception"
      THEN [job EXCEPT !.polls = @ + 1, !.raised = TRUE, !.status = "ERROR",
                       !.pc = "done"]
      ELSE [job EXCEPT !.polls = @ + 1, !.status = answer,
                       !.pc = IF IsTerminal(answer) THEN "done" ELSE "sleep"]

\* Variant: results are requested whatever the status.
FetchesResultsAlways(job) == TRUE

\* get_result: `if job.status != "COMPLETED": return job`
FetchesResults(job) == job.status = "COMPLETED"

Request(kind, rule) == [kind |-> kind, rule |-> rule]

HunterIdle ==
    /\ h_pc = "idle" /\ h_nrules = 0 /\ h_started = <<>> /\ h_next = 0
    /\ h_jobs = <<>> /\ h_requests = {} /\ h_report = <<>>

HunterInit ==
    /\ h_pc = "begin" /\ h_nrules \in 0..MaxRules
    /\ h_started = [r \in 1..h_nrules |-> "none"] /\ h_next = 1
    /\ h_jobs = <<>> /\ h_requests = {} /\ h_report = <<>>

\* run up to start_hunt_jobs: the feed or its rules cannot be fetched (sys.exit),
\* or no rule is new, or the hunts are about to be started.
GetNewRules ==
    /\ h_pc = "begin"
    /\ \/ h_pc' = "exited"
       \/ h_pc' = IF h_nrules = 0 THEN "done" ELSE "starting"
    /\ UNCHANGED <<h_nrules, h_started, h_next, h_jobs, h_requests, h_report,
                   restHunter>>

\* start_hunt of the next rule: POST /v0/hunt-jobs gives a job, or raises (None).
StartHunt ==
    /\ h_pc = "starting"
    /\ h_next <= h_nrules
    /\ h_requests' = h_requests \cup {Request("start", h_next)}
    /\ \E ok \in BOOLEAN :
         /\ h_started' = [h_started EXCEPT ![h_next] = IF ok THEN "ok" ELSE "failed"]
         /\ h_jobs' = IF ok THEN Append(h_jobs, NewJob(h_next)) ELSE h_jobs
    /\ h_next' = h_next + 1
    /\ UNCHANGED <<h_pc, h_nrules, h_report, restHunter>>

\* start_hunt_jobs returns the jobs that are not None; run ends when there is none.
StartedAll ==
    /\ h_pc = "starting"
    /\ h_next > h_nrules
    /\ h_pc' = IF h_jobs = <<>> THEN "done" ELSE "polling"
    /\ UNCHANGED <<h_nrules, h_started, h_next, h_jobs, h_requests, h_report,
                   restHunter>>

\* poll_job of some job requests the status.
PollJob ==
    /\ h_pc = "polling"
    /\ \E j \in 1..Len(h_jobs), answer \in PollAnswers :
         /\ h_jobs[j].pc = "poll"
         /\ h_jobs[j].polls < MaxPolls
         /\ h_jobs' = [h_jobs EXCEPT ![j] = AfterPoll(@, answer)]
         /\ h_requests' = h_requests \cup {Request("poll", h_jobs[j].rule)}
    /\ UNCHANGED <<h_pc, h_nrules, h_started, h_next, h_report, restHunter>>

\* asyncio.sleep(5) of some job is over.
WakeJob ==
    /\ h_pc = "polling"
    /\ \E j \in 1..Len(h_jobs) :
         /\ h_jobs[j].pc = "sleep"
         /\ h_jobs' = [h_jobs EXCEPT ![j].pc = "poll", ![j].sleeps = @ + 1]
    /\ UNCHANGED <<h_pc, h_nrules, h_started, h_next, h_requests, h_report,
                   restHunter>>

\* asyncio.gather of the poll_job coroutines returns: every one has returned.
PolledAll ==
    /\ h_pc = "polling"
    /\ \A j \in 1..Len(h_jobs) : h_jobs[j].pc = "done"
    /\ h_pc' = "results"
    /\ h_next' = 1
    /\ UNCHANGED <<h_nrules, h_started, h_jobs, h_requests, h_report, restHunter>>

\* get_result of the next job.
GetResult ==
    /\ h_pc = "results"
    /\ h_next <= Len(h_jobs)
    /\ IF FetchesResults(h_jobs[h_next])
         THEN /\ h_requests' = h_requests \cup {Request("results", h_jobs[h_next].rule)}
              /\ \E outcome \in {"counted", "raised"} :
                   h_jobs' = [h_jobs EXCEPT ![h_next].results = outcome]
         ELSE UNCHANGED <<h_jobs, h_requests>>
    /\ h_next' = h_next + 1
    /\ UNCHANGED <<h_pc, h_nrules, h_started, h_report, restHunter>>

\* generate_report: one row per job of hunt_jobs, then the summary.
GenerateReport ==
    /\ h_pc = "results"
    /\ h_next > Len(h_jobs)
    /\ h_report' = [j \in 1..Len(h_jobs) |-> h_jobs[j].rule]
    /\ h_pc' = "done"
    /\ UNCHANGED <<h_nrules, h_started, h_next, h_jobs, h_requests, restHunter>>

-----------------------------------------------------------------------------
(* New-Rule Hunter: poll_job followed without a limit on its polls.  The loop
   of poll_job is `while True`; here the counters of a job stop at MaxPolls so
   that a job polled for ever stays within finitely many states. *)

Saturate(job) ==
    [job EXCEPT !.polls = Min(@, MaxPolls), !.sleeps = Min(@, MaxPolls)]

\* One iteration of the loop of poll_job of job j, whatever its number
PollJobOf(j) ==
    /\ h_pc = "polling"
    /\ j \in 1..Len(h_jobs)
    /\ h_jobs[j].pc = "poll"
    /\ \E answer \in PollAnswers :
         h_jobs' = [h_jobs EXCEPT ![j] = Saturate(AfterPoll(@, answer))]
    /\ h_requests' = h_requests \cup {Request("poll", h_jobs[j].rule)}
    /\ UNCHANGED <<h_pc, h_nrules, h_started, h_next, h_report, restHunter>>

\* asyncio.sleep(5) of job j is over
WakeJobOf(j) ==
    /\ h_pc = "polling"
    /\ j \in 1..Len(h_jobs)
    /\ h_jobs[j].pc = "sleep"
    /\ h_jobs' = [h_jobs EXCEPT ![j] = Saturate([@ EXCEPT !.pc = "poll",
                                                          !.sleeps = @ + 1])]
    /\ UNCHANGED <<h_pc, h_nrules, h_started, h_next, h_requests, h_report,
                   restHunter>>

PollAnyJob == \E j \in 1..MaxRules : PollJobOf(j)
WakeAnyJob == \E j \in 1..MaxRules : WakeJobOf(j)

-----------------------------------------------------------------------------
(* Coverage Manager: analyze_coverage *)

\* settings.remediative_action_types as the command line sets it by default
RemediativeTypes == {"delete_message", "move_to_spam", "quarantine_message"}

\* An Action object; main sets is_remediative from the action's type
Action(id, type) == [id |-> id, type |-> type, is_remediative |-> type \in RemediativeTypes]

ActQuarantine == Action(201, "quarantine_message")
ActWebhook == Action(202, "webhook")
ActSpam == Action(203, "move_to_spam")
ActWarning == Action(204, "warning_banner")

\* The automation rules: triage rules that carry a remediative action
AutomationRules ==
    << [id |-> 101, actions |-> <<ActQuarantine>>],
       [id |-> 102, actions |-> <<ActWebhook, ActSpam>>] >>

\* The detection rules the instance holds; each carries a remediative action
DetectionRuleActions(i) ==
    IF i % 3 = 1 THEN <<ActQuarantine>>
    ELSE IF i % 3 = 2 THEN <<ActWebhook, ActQuarantine, ActWarning>>
    ELSE <<ActSpam, ActWebhook, ActQuarantine>>

DetectionRule(i) == [id |-> i, actions |-> DetectionRuleActions(i)]

\* Rule.remediative_actions
RemediativeActions(rule) == SelectSeq(rule.actions, LAMBDA a : a.is_remediative)

\* Rule.remediative_action_types
RemediativeActionTypes(rule) ==
    [i \in 1..Len(RemediativeActions(rule)) |-> RemediativeActions(rule)[i].type]

RECURSIVE Gcd(_, _)
Gcd(a, b) == IF b = 0 THEN a ELSE Gcd(b, a % b)

\* A Python number, kept exact: the fraction num/den in lowest terms
Number(num, den) ==
    [type |-> "float", text |-> "", num |-> num \div Gcd(num, den),
     den |-> den \div Gcd(num, den)]

\* A Python string in a field that holds a number or a string
Str(text) == [type |-> "str", text |-> text, num |-> 0, den |-> 1]

\* a / b and a * b of Python numbers
NumDiv(a, b) == Number(a.num * b.den, a.den * b.num)
NumMul(a, b) == Number(a.num * b.num, a.den * b.den)

\* isinstance(x, (int, float))
IsNumeric(x) == x.type = "float"

\* a >= b and a <= b of Python numbers
NumGe(a, b) == a.num * b.den >= b.num * a.den
NumLe(a, b) == NumGe(b, a)

\* A message group is the set of ids of the rules that flagged it
\* (Message.flagged_rule_ids). The automation rules that flagged a group:
AutomationFlags == { {}, {101}, {101, 102} }

\* The example of 10 message groups of which 4 are also flagged by an automation
ExampleFlags ==
    [i \in 1..10 |->
        IF i \in {2, 5} THEN {101} ELSE IF i \in {7, 10} THEN {101, 102} ELSE {}]

\* What get_messages_by_rule does: it raises or returns the groups
Raised(text) == [raised |-> TRUE, text |-> text, messages |-> <<>>]
Returned(messages) == [raised |-> FALSE, text |-> "", messages |-> messages]
Outcomes ==
    {Raised("Failed to get messages for rule")}
    \cup { Returned(m) : m \in SeqsUpTo(AutomationFlags, MaxGroups) }
    \cup {Returned(ExampleFlags)}

\* The query asks for the groups that rule r flagged (flagged_rule_id__is)
FlaggedBy(r, outcome) ==
    [outcome EXCEPT !.messages = [j \in 1..Len(@) |-> @[j] \cup {r}]]
ExampleGroups(r) == FlaggedBy(r, Returned(ExampleFlags)).messages
MessagesByRule(r) == { FlaggedBy(r, o) : o \in Outcomes }

\* DataProcessor._get_automation_actions
RECURSIVE GetAutomationActions(_)
GetAutomationActions(automation_rules) ==
    IF automation_rules = <<>> THEN {}
    ELSE { RemediativeActionTypes(Head(automation_rules))[i] :
               i \in 1..Len(RemediativeActionTypes(Head(automation_rules))) }
         \cup GetAutomationActions(Tail(automation_rules))

CoverageResult(rule, total, covered, uncovered, percent, automation_actions, error,
               has_message_groups) ==
    [rule_id |-> rule.id, rule_actions |-> RemediativeActionTypes(rule),
     total_message_groups |-> total, covered_message_groups |-> covered,
     uncovered_message_groups |-> uncovered, percent_covered |-> percent,
     automation_actions |-> automation_actions, error |-> error,
     has_message_groups |-> has_message_groups]

\* error=None
None == "None"

\* Variant: a message group counts once for every automation that flagged it.
FlaggedCountPerAutomation(flagged_automation_ids) == Cardinality(flagged_automation_ids)
\* `if flagged_automation_ids: covered_message_groups += 1`
FlaggedCount(flagged_automation_ids) == IF flagged_automation_ids # {} THEN 1 ELSE 0

\* The loop over the messages: the number of covered groups
RECURSIVE CoveredCount(_, _)
CoveredCount(messages, automation_rule_ids) ==
    IF messages = <<>> THEN 0
    ELSE FlaggedCount(Head(messages) \cap automation_rule_ids)
         + CoveredCount(Tail(messages), automation_rule_ids)

\* The loop over the messages: actual_automation_actions
RECURSIVE ActualAutomationActions(_, _)
ActualAutomationActions(messages, automation_rules) ==
    IF messages = <<>> THEN {}
    ELSE GetAutomationActions(SelectSeq(automation_rules,
                                        LAMBDA ar : ar.id \in Head(messages)))
         \cup ActualAutomationActions(Tail(messages), automation_rules)

\* `(covered / total * 100) if total > 0 else 0.0`
PercentCovered(covered, total) ==
    IF total > 0 THEN NumMul(NumDiv(Number(covered, 1), Number(total, 1)), Number(100, 1))
    ELSE Number(0, 1)

\* DataProcessor._calculate_rule_coverage
CalculateRuleCoverage(rule, messages, automation_rules) ==
    LET total == Len(messages)
        ids == { automation_rules[i].id : i \in 1..Len(automation_rules) }
        covered == CoveredCount(messages, ids)
    IN  CoverageResult(rule, total, covered, total - covered,
                       PercentCovered(covered, total),
                       ActualAutomationActions(messages, automation_rules), None, TRUE)

\* Variant: a rule without message groups is reported as 0 per cent covered.
NoDataPercentZero == Number(0, 1)
\* `percent_covered="unknown"` of the result for a rule without message groups
NoDataPercent == Str("unknown")

\* The body of the loop of analyze_coverage for one rule
AnalyzeOne(rule, answer, automation_rules) ==
    IF answer.raised
    THEN CoverageResult(rule, 0, 0, 0, Str("unknown"),
                        GetAutomationActions(automation_rules), answer.text, FALSE)
    ELSE IF answer.messages = <<>>
    THEN CoverageResult(rule, 0, 0, 0, NoDataPercent,
                        GetAutomationActions(automation_rules), None, FALSE)
    ELSE CalculateRuleCoverage(rule, answer.messages, automation_rules)

\* Variant: a rule whose analysis raised leaves no result.
AppendResultUnlessRaised(results_, rule, answer, automation_rules) ==
    IF answer.raised THEN results_
    ELSE Append(results_, AnalyzeOne(rule, answer, automation_rules))
\* `results.append(result)` and `results.append(error_result)`
AppendResult(results_, rule, answer, automation_rules) ==
    Append(results_, AnalyzeOne(rule, answer, automation_rules))

CmIdle ==
    /\ cm_pc = "idle"
    /\ cm_rules = <<>>
    /\ cm_answers = <<>>
    /\ cm_results = <<>>
    /\ cm_trace = <<>>
    /\ cm_exit = <<>>

\* main after step 4: the detection rules are fetched
CmInit ==
    /\ cm_pc = "step4"
    /\ \E n \in 0..MaxDetRules : cm_rules = [i \in 1..n |-> DetectionRule(i)]
    /\ cm_answers = <<>>
    /\ cm_results = <<>>
    /\ cm_trace = <<>>
    /\ cm_exit = <<>>

\* `if not detection_rules: ... return 0`, otherwise on to analyze_coverage
CheckDetectionRules ==
    /\ cm_pc = "step4"
    /\ IF cm_rules = <<>>
       THEN cm_pc' = "returned" /\ cm_exit' = <<0>>
       ELSE cm_pc' = "analyze" /\ cm_exit' = cm_exit
    /\ UNCHANGED <<cm_rules, cm_answers, cm_results, cm_trace, restCm>>

\* One iteration of `for i, rule in enumerate(detection_rules)`
AnalyzeRule ==
    /\ cm_pc = "analyze"
    /\ Len(cm_results) < Len(cm_rules)
    /\ LET rule == cm_rules[Len(cm_results) + 1]
       IN  \E answer \in MessagesByRule(rule.id) :
               /\ cm_answers' = Append(cm_answers, answer)
               /\ cm_results' = AppendResult(cm_results, rule, answer, AutomationRules)
    /\ UNCHANGED <<cm_pc, cm_rules, cm_trace, cm_exit, restCm>>

-----------------------------------------------------------------------------
(* Coverage Manager: the reports of step 7 *)

\* The keys of the dict CoverageResult.to_dict returns
ToDictKeys ==
    {"rule_id", "rule_name", "rule_actions", "automation_actions",
     "total_message_groups", "covered_message_groups", "uncovered_message_groups",
     "percent_covered", "has_message_groups", "error"}

\* fieldnames of generate_csv_report
CsvFieldnames ==
    {"rule_id", "rule_name", "rule_actions", "automation_actions", "total_messages",
     "covered_messages", "uncovered_messages", "percent_covered", "has_messages",
     "error"}

\* writer.writerow(row_data) of a csv.DictWriter built without extrasaction:
\* a key of the row that is no field name raises ValueError
WriteRowRaises(keys, fieldnames) == keys \ fieldnames # {}

\* generate_json_report, after analyze_coverage has returned its results
GenerateJsonReport ==
    /\ cm_pc = "analyze"
    /\ Len(cm_results) = Len(cm_rules)
    /\ cm_trace' = Append(cm_trace, "json_report")
    /\ cm_pc' = "csv"
    /\ UNCHANGED <<cm_rules, cm_answers, cm_results, cm_exit, restCm>>

\* generate_csv_report: the header, then one row per result
GenerateCsvReport ==
    /\ cm_pc = "csv"
    /\ LET raises == cm_results # <<>> /\ WriteRowRaises(ToDictKeys, CsvFieldnames)
       IN  /\ cm_trace' = cm_trace \o <<"csv_header">>
                          \o (IF raises THEN <<>> ELSE <<"csv_rows">>)
           /\ cm_pc' = IF raises THEN "except" ELSE "summary"
    /\ UNCHANGED <<cm_rules, cm_answers, cm_results, cm_exit, restCm>>

\* `except Exception as e: print("Unexpected error ..."); return 1` of main
UnexpectedError ==
    /\ cm_pc = "except"
    /\ cm_trace' = Append(cm_trace, "unexpected_error")
    /\ cm_exit' = <<1>>
    /\ cm_pc' = "returned"
    /\ UNCHANGED <<cm_rules, cm_answers, cm_results, restCm>>

-----------------------------------------------------------------------------
(* Coverage Manager: get_rules_above_threshold *)

\* Thresholds the caller passes
Thresholds == {Number(0, 1), Number(40, 1), Number(50, 1), Number(75, 1), Number(100, 1)}

\* The result lists analyze_coverage can return for the first n detection rules
AnalysisResults(n) ==
    { [i \in 1..n |-> AnalyzeOne(DetectionRule(i), FlaggedBy(i, o[i]), AutomationRules)] :
        o \in [1..n -> Outcomes] }

\* Truth value of result.error
ErrorSet(error) == error # None /\ error # ""

\* The condition of the comprehension for one result, `and` evaluated from left
\* to right: "drop", "keep", or "raise" when an attribute the object does not
\* have is read (AttributeError)
Condition(result, threshold) ==
    IF ~IsNumeric(result.percent_covered) THEN "drop"
    ELSE IF ~NumGe(result.percent_covered, threshold) THEN "drop"
    ELSE IF "has_messages" \notin DOMAIN result THEN "raise"
    ELSE IF ~result["has_messages"] THEN "drop"
    ELSE IF ErrorSet(result.error) THEN "drop"
    ELSE "keep"

\* DataProcessor.get_rules_above_threshold: the list, unless the comprehension raised
RECURSIVE GetRulesAboveThreshold(_, _)
GetRulesAboveThreshold(results_, threshold) ==
    IF results_ = <<>> THEN [raised |-> FALSE, rows |-> <<>>]
    ELSE LET c == Condition(Head(results_), threshold)
             after == GetRulesAboveThreshold(Tail(results_), threshold)
         IN  IF c = "raise" \/ after.raised THEN [raised |-> TRUE, rows |-> <<>>]
             ELSE [raised |-> FALSE,
                   rows |-> IF c = "keep" THEN <<Head(results_)>> \o after.rows
                            ELSE after.rows]

\* What the contract of get_rules_above_threshold selects
SelectedByContract(results_, threshold) ==
    SelectSeq(results_, LAMBDA r : /\ IsNumeric(r.percent_covered)
                                   /\ NumGe(r.percent_covered, threshold)
                                   /\ r.has_message_groups
                                   /\ ~ErrorSet(r.error))

SelIdle ==
    /\ sel_pc = "idle"
    /\ sel_results = <<>>
    /\ sel_threshold = Number(0, 1)
    /\ sel_out = [raised |-> FALSE, rows |-> <<>>]

SelInit ==
    /\ sel_pc = "call"
    /\ \E n \in 0..MaxDetRules : sel_results \in AnalysisResults(n)
    /\ sel_threshold \in Thresholds
    /\ sel_out = [raised |-> FALSE, rows |-> <<>>]

\* The call processor.get_rules_above_threshold(results, threshold)
CallGetRulesAboveThreshold ==
    /\ sel_pc = "call"
    /\ sel_out' = GetRulesAboveThreshold(sel_results, sel_threshold)
    /\ sel_pc' = IF sel_out'.raised THEN "raised" ELSE "returned"
    /\ UNCHANGED <<sel_results, sel_threshold, restSel>>

-----------------------------------------------------------------------------
(* Coverage Manager: the modification loop of main *)

\* DataProcessor.get_rules_with_no_message_groups
GetRulesWithNoMessageGroups(results_) ==
    SelectSeq(results_, LAMBDA r : ~r.has_message_groups /\ ~ErrorSet(r.error))

\* The parameters of SublimeAPI.remove_actions_from_rule after self; none has a default
RemoveActionsParams == <<"rule_id", "action_ids_to_remove", "current_actions", "rule_data">>

\* The parameters the call in main gives a value, in order
RemoveActionsArgs == <<"rule_id", "action_ids_to_remove", "current_actions">>

\* A call binds when every parameter gets one argument; otherwise Python raises TypeError
CallBinds(params, args) == Len(args) = Len(params)

\* [a.id for a in original_rule.remediative_actions]
RemediativeActionIds(rule) ==
    [i \in 1..Len(RemediativeActions(rule)) |-> RemediativeActions(rule)[i].id]

\* remaining_action_ids of remove_actions_from_rule
RemainingActionIds(current_actions, action_ids_to_remove) ==
    LET current_action_ids == [i \in 1..Len(current_actions) |-> current_actions[i].id]
    IN  SelectSeq(current_action_ids,
                  LAMBDA aid : \A j \in 1..Len(action_ids_to_remove) :
                                   action_ids_to_remove[j] # aid)

\* The PATCH /v1/rules/{rule_id} of remove_actions_from_rule
PatchRule(rule_id, action_ids_to_remove, current_actions) ==
    [rule_id |-> rule_id,
     action_ids |-> RemainingActionIds(current_actions, action_ids_to_remove),
     overwrite_actions |-> TRUE]

\* next(r for r in detection_rules if r.id == result.rule_id)
OriginalRule(detection_rules, rule_id) ==
    detection_rules[CHOOSE i \in 1..Len(detection_rules) :
                        /\ detection_rules[i].id = rule_id
                        /\ \A j \in 1..(i - 1) : detection_rules[j].id # rule_id]

\* The states in which main enters the loop: the rules chosen by threshold,
\* then the rules without message groups when the user included them
ModifyInputs(n) ==
    { [rules |-> [i \in 1..n |-> DetectionRule(i)],
       todo |-> SelectedByContract(rs, t)
                \o (IF inc THEN GetRulesWithNoMessageGroups(rs) ELSE <<>>)] :
        rs \in AnalysisResults(n), t \in Thresholds, inc \in BOOLEAN }

ModIdle ==
    /\ mod_pc = "idle"
    /\ mod_dry_run = FALSE
    /\ mod_rules = <<>>
    /\ mod_todo = <<>>
    /\ mod_idx = 0
    /\ mod_patches = <<>>
    /\ mod_success = 0
    /\ mod_failed = <<>>

\* main after the user has confirmed the modification
ModInit ==
    /\ mod_pc = "loop"
    /\ mod_dry_run \in BOOLEAN
    /\ \E n \in 1..MaxDetRules : \E inp \in ModifyInputs(n) :
           /\ inp.todo # <<>>
           /\ mod_rules = inp.rules
           /\ mod_todo = inp.todo
    /\ mod_idx = 1
    /\ mod_patches = <<>>
    /\ mod_success = 0
    /\ mod_failed = <<>>

\* One iteration of `for result in all_rules_to_modify`
ModifyRule ==
    /\ mod_pc = "loop"
    /\ mod_idx <= Len(mod_todo)
    /\ LET result == mod_todo[mod_idx]
           original_rule == OriginalRule(mod_rules, result.rule_id)
       IN  IF mod_dry_run
           THEN /\ mod_success' = mod_success + 1
                /\ UNCHANGED <<mod_patches, mod_failed>>
           ELSE IF ~CallBinds(RemoveActionsParams, RemoveActionsArgs)
           THEN \* TypeError, caught by `except Exception as e`
                /\ mod_failed' = Append(mod_failed, result.rule_id)
                /\ UNCHANGED <<mod_patches, mod_success>>
           ELSE \E answer \in {"ok", "APIError"} :
                /\ mod_patches' = Append(mod_patches,
                                         PatchRule(result.rule_id,
                                                   RemediativeActionIds(original_rule),
                                                   original_rule.actions))
                /\ IF answer = "ok"
                   THEN mod_success' = mod_success + 1 /\ mod_failed' = mod_failed
                   ELSE /\ mod_failed' = Append(mod_failed, result.rule_id)
                        /\ mod_success' = mod_success
    /\ mod_idx' = mod_idx + 1
    /\ UNCHANGED <<mod_pc, mod_dry_run, mod_rules, mod_todo, restMod>>

\* The loop is over: the summary of the modification
ModifySummary ==
    /\ mod_pc = "loop"
    /\ mod_idx > Len(mod_todo)
    /\ mod_pc' = "done"
    /\ UNCHANGED <<mod_dry_run, mod_rules, mod_todo, mod_idx, mod_patches, mod_success,
                   mod_failed, restMod>>

-----------------------------------------------------------------------------
(* Coverage Manager: the threshold prompt and validate_threshold *)

\* The characters the typed threshold is made of
InputChars == {"0", "1", "4", "5", "7", "9", "-", ".", "n", "a", "i", "f"}
Digits == {"0", "1", "4", "5", "7", "9"}
ThresholdInputs == SeqsUpTo(InputChars, MaxInputLen)

DigitValue(c) ==
    CASE c = "0" -> 0 [] c = "1" -> 1 [] c = "4" -> 4 [] c = "5" -> 5
      [] c = "7" -> 7 [] c = "9" -> 9

RECURSIVE Pow10(_)
Pow10(k) == IF k = 0 THEN 1 ELSE 10 * Pow10(k - 1)

\* The digits of s, the point left out, read as a decimal integer
RECURSIVE DigitsValue(_)
DigitsValue(s) ==
    IF s = <<>> THEN 0
    ELSE IF Last(s) = "." THEN DigitsValue(SubSeq(s, 1, Len(s) - 1))
    ELSE 10 * DigitsValue(SubSeq(s, 1, Len(s) - 1)) + DigitValue(Last(s))

\* The number of characters of s after its point, 0 when it has none
FractionDigits(s) ==
    IF \E i \in 1..Len(s) : s[i] = "."
    THEN Len(s) - (CHOOSE i \in 1..Len(s) : s[i] = ".")
    ELSE 0

\* s is digits with at most one point and at least one digit
IsDecimal(s) ==
    /\ \A i \in 1..Len(s) : s[i] \in Digits \cup {"."}
    /\ Cardinality({ i \in 1..Len(s) : s[i] = "." }) <= 1
    /\ \E i \in 1..Len(s) : s[i] \in Digits

\* A Python float: a number num/den with its sign, nan, or an infinity
FloatValue(kind, neg, num, den) == [kind |-> kind, neg |-> neg, num |-> num, den |-> den]
NoValue == FloatValue("none", FALSE, 0, 1)

\* float(s) for a string over InputChars; kind "invalid" stands for
\* ValueError("could not convert string to float")
Float(s) ==
    LET neg == s # <<>> /\ Head(s) = "-"
        body == IF neg THEN Tail(s) ELSE s
    IN  IF body = <<"n", "a", "n">> THEN FloatValue("nan", FALSE, 0, 1)
        ELSE IF body = <<"i", "n", "f">> THEN FloatValue("inf", neg, 0, 1)
        ELSE IF IsDecimal(body)
        THEN FloatValue("num", neg, DigitsValue(body), Pow10(FractionDigits(body)))
        ELSE FloatValue("invalid", FALSE, 0, 1)

\* value < c and value > c for an integer c >= 0; every comparison with nan is False
FloatLt(value, c) ==
    CASE value.kind = "nan" -> FALSE
      [] value.kind = "inf" -> value.neg
      [] OTHER -> IF value.neg THEN value.num > 0 \/ c > 0 ELSE value.num < c * value.den
FloatGt(value, c) ==
    CASE value.kind = "nan" -> FALSE
      [] value.kind = "inf" -> ~value.neg
      [] OTHER -> ~value.neg /\ value.num > c * value.den

\* validate_threshold up to its return, its prompt or its exception
ValidateOutcome(threshold) ==
    LET value == Float(threshold)
    IN  IF value.kind = "invalid"
        THEN [pc |-> "raised", value |-> NoValue, error |-> "Threshold must be a valid number"]
        ELSE IF FloatLt(value, 0) \/ FloatGt(value, 100)
        THEN [pc |-> "raised", value |-> value,
              error |-> "Threshold must be between 0 and 100"]
        ELSE IF FloatLt(value, LowThreshold)
        THEN [pc |-> "confirm", value |-> value, error |-> ""]
        ELSE [pc |-> "returned", value |-> value, error |-> ""]

\* `confirm not in ['y', 'yes']` after strip().lower()
ConfirmAnswers == {"y", "yes", "n", ""}
Confirms(confirm) == confirm \in {"y", "yes"}

ThIdle ==
    /\ th_pc = "idle"
    /\ th_input = <<>>
    /\ th_prompted = FALSE
    /\ th_value = NoValue
    /\ th_error = ""

\* main at the head of `while True` of the threshold prompt
ThInit ==
    /\ th_pc = "ask"
    /\ th_input = <<>>
    /\ th_prompted = FALSE
    /\ th_value = NoValue
    /\ th_error = ""

\* `threshold_input = input("Enter coverage threshold percentage (50-100): ").strip()`
EnterThreshold ==
    /\ th_pc = "ask"
    /\ th_input' \in ThresholdInputs
    /\ th_pc' = "call"
    /\ UNCHANGED <<th_prompted, th_value, th_error, restTh>>

\* validate_threshold(threshold_input) up to its return, prompt or exception
ValidateThreshold ==
    /\ th_pc = "call"
    /\ LET out == ValidateOutcome(th_input)
       IN  /\ th_pc' = out.pc
           /\ th_value' = out.value
           /\ th_error' = out.error
           /\ th_prompted' = (out.pc = "confirm")
    /\ UNCHANGED <<th_input, restTh>>

\* The answer to "Are you sure you want to continue? (y/N)"
ConfirmLowThreshold ==
    /\ th_pc = "confirm"
    /\ \E confirm \in ConfirmAnswers :
           IF Confirms(confirm)
           THEN th_pc' = "returned" /\ th_error' = th_error
           ELSE th_pc' = "raised" /\ th_error' = "Operation cancelled by user"
    /\ UNCHANGED <<th_input, th_prompted, th_value, restTh>>

\* `except ValueError as e` of main: print the message, then "Try again?"
TryAgain ==
    /\ th_pc = "raised"
    /\ \E again \in BOOLEAN :
           IF again
           THEN /\ th_pc' = "ask"
                /\ th_input' = <<>>
                /\ th_prompted' = FALSE
                /\ th_value' = NoValue
                /\ th_error' = ""
           ELSE /\ th_pc' = "exit"
                /\ UNCHANGED <<th_input, th_prompted, th_value, th_error>>
    /\ UNCHANGED restTh

-----------------------------------------------------------------------------
(* Malicious Sender Extractor *)

\* The sender addresses the API can name, each a string as its characters
SenderAddresses ==
    { <<"a", "@", "x">>, <<"A", "@", "x">>, <<"b", "@", "x">> }

\* ord(c) for the characters of the addresses
Ord(c) ==
    CASE c = "@" -> 64 [] c = "A" -> 65 [] c = "B" -> 66 [] c = "X" -> 88
      [] c = "a" -> 97 [] c = "b" -> 98 [] c = "x" -> 120

\* s < t for Python strings: by the first character that differs, a proper
\* prefix first
RECURSIVE StrLt(_, _)
StrLt(s, t) ==
    IF t = <<>> THEN FALSE
    ELSE IF s = <<>> THEN TRUE
    ELSE IF Head(s) # Head(t) THEN Ord(Head(s)) < Ord(Head(t))
    ELSE StrLt(Tail(s), Tail(t))

\* sorted(S) for a set of strings
RECURSIVE Sorted(_)
Sorted(S) ==
    IF S = {} THEN <<>>
    ELSE LET least == CHOOSE s \in S : \A t \in S \ {s} : StrLt(s, t)
         IN  <<least>> \o Sorted(S \ {least})

\* A response of GET /v1/messages/groups: the number of message groups of the
\* page and the top-level sender_email__info, a dict keyed by sender address
\* or absent
Page(ngroups, has_info, keys) == [ngroups |-> ngroups, has_info |-> has_info, keys |-> keys]
PageResponses ==
    { Page(0, FALSE, {}), Page(0, TRUE, {}) }
    \cup { Page(n, FALSE, {}) : n \in {PageLimit - 1, PageLimit} }
    \cup { Page(n, TRUE, k) : n \in {PageLimit - 1, PageLimit}, k \in SUBSET SenderAddresses }

\* Variant: the addresses of a page replace those gathered so far.
UpdateSenderEmailsReplacing(sender_emails, page) ==
    IF page.has_info /\ page.keys # {} THEN page.keys ELSE sender_emails
\* `if sender_info and isinstance(sender_info, dict): sender_emails.update(sender_info.keys())`
UpdateSenderEmails(sender_emails, page) ==
    IF page.has_info /\ page.keys # {} THEN sender_emails \cup page.keys ELSE sender_emails

\* Variant: every line is lower-cased before it is written.
RECURSIVE LowerLine(_)
LowerLine(email) ==
    IF email = <<>> THEN <<>>
    ELSE <<(CASE Head(email) = "A" -> "a" [] Head(email) = "B" -> "b"
              [] Head(email) = "X" -> "x" [] OTHER -> Head(email))>>
         \o LowerLine(Tail(email))
\* The line save_to_file writes for an address: f"{email}\n"
FileLine(email) == email

\* The lines save_to_file writes: `for email in sorted(sender_emails)`
SaveToFile(sender_emails) ==
    [i \in 1..Cardinality(sender_emails) |-> FileLine(Sorted(sender_emails)[i])]

\* get_json_output: sorted(list(sender_emails))
GetJsonOutput(sender_emails) == Sorted(sender_emails)

MsIdle ==
    /\ ms_pc = "idle"
    /\ ms_format = "file"
    /\ ms_offset = 0
    /\ ms_pages = <<>>
    /\ ms_sender_emails = {}
    /\ ms_out = <<>>
    /\ ms_printed = ""

\* main after the arguments are parsed and the extractor is built
MsInit ==
    /\ ms_pc = "loop"
    /\ ms_format \in {"file", "json"}
    /\ ms_offset = 0
    /\ ms_pages = <<>>
    /\ ms_sender_emails = {}
    /\ ms_out = <<>>
    /\ ms_printed = ""

\* One iteration of `while True` of extract_sender_emails with a page returned
FetchSenderPage ==
    /\ ms_pc = "loop"
    /\ Len(ms_pages) < MaxPages
    /\ \E page \in PageResponses :
           /\ ms_pages' = Append(ms_pages, page)
           /\ IF page.ngroups = 0
              THEN /\ ms_pc' = "output"
                   /\ UNCHANGED <<ms_sender_emails, ms_offset>>
              ELSE /\ ms_sender_emails' = UpdateSenderEmails(ms_sender_emails, page)
                   /\ IF page.ngroups < PageLimit
                      THEN ms_pc' = "output" /\ ms_offset' = ms_offset
                      ELSE ms_pc' = "loop" /\ ms_offset' = ms_offset + PageLimit
    /\ UNCHANGED <<ms_format, ms_out, ms_printed, restMs>>

\* _make_api_request fails: "API Error", "Try again", sys.exit(1)
FetchSenderPageFails ==
    /\ ms_pc = "loop"
    /\ Len(ms_pages) < MaxPages
    /\ ms_pc' = "exit"
    /\ ms_printed' = "Try again"
    /\ UNCHANGED <<ms_format, ms_offset, ms_pages, ms_sender_emails, ms_out, restMs>>

\* main after extract_sender_emails has returned
OutputSenders ==
    /\ ms_pc = "output"
    /\ ms_pc' = "done"
    /\ IF ms_sender_emails = {}
       THEN ms_printed' = "None found" /\ ms_out' = ms_out
       ELSE IF ms_format = "json"
       THEN ms_printed' = "json" /\ ms_out' = GetJsonOutput(ms_sender_emails)
       ELSE ms_printed' = "Saved" /\ ms_out' = SaveToFile(ms_sender_emails)
    /\ UNCHANGED <<ms_format, ms_offset, ms_pages, ms_sender_emails, restMs>>

-----------------------------------------------------------------------------
(* report compare: commands/report/compare.py *)

\* The object types compared here are the two whose equivalence is the
\* source_md5: rules, matched through (name, source_md5), and exclusions,
\* matched through the name and then are_objects_equivalent.
CompareTypes == {"rules", "exclusions"}
CmpNames == {"a", "b"}
CmpMd5s == {"m1", "m2"}
CmpObjects == [name : CmpNames, source_md5 : CmpMd5s]
MaxCmpObjs == 2

\* are_objects_equivalent, branches "exclusions" and "rules"
AreObjectsEquivalent(obj1, obj2, obj_type) ==
    IF obj_type \in {"exclusions", "rules"}
    THEN obj1.source_md5 = obj2.source_md5
    ELSE obj1 = obj2

\* (name, md5) in dest_by_name_md5
InDestByNameMd5(dst, name, md5) ==
    \E i \in 1..Len(dst) : dst[i].name = name /\ dst[i].source_md5 = md5

\* the body of `for source_obj in source_objects`: the list the name goes to
ClassifySource(src_obj, dst, obj_type) ==
    IF obj_type = "rules"
    THEN IF InDestByNameMd5(dst, src_obj.name, src_obj.source_md5) THEN "matching"
         ELSE IF HasName(dst, src_obj.name) THEN "content_differs"
         ELSE "missing_in_dest"
    ELSE IF HasName(dst, src_obj.name)
         THEN IF AreObjectsEquivalent(src_obj, dst[LastByName(dst, src_obj.name)],
                                      obj_type)
              THEN "matching" ELSE "content_differs"
         ELSE "missing_in_dest"

RECURSIVE NamesClassified(_, _, _, _)
\* the names of the source objects that go to list `class`, in source order
NamesClassified(src, dst, obj_type, class) ==
    IF src = <<>> THEN <<>>
    ELSE LET rest == NamesClassified(Tail(src), dst, obj_type, class)
         IN  IF ClassifySource(Head(src), dst, obj_type) = class
             THEN <<Head(src).name>> \o rest ELSE rest

RECURSIVE MissingInSource(_, _)
\* `for dest_obj in dest_objects: if name not in source_names`
MissingInSource(src, dst) ==
    IF dst = <<>> THEN <<>>
    ELSE IF HasName(src, Head(dst).name) THEN MissingInSource(src, Tail(dst))
         ELSE <<Head(dst).name>> \o MissingInSource(src, Tail(dst))

\* `differences`: the three lists of names; the matching names are only counted
CompareDifferences(src, dst, obj_type) ==
    [missing_in_dest |-> NamesClassified(src, dst, obj_type, "missing_in_dest"),
     missing_in_source |-> MissingInSource(src, dst),
     content_differs |-> NamesClassified(src, dst, obj_type, "content_differs")]

CompareSummary(src, dst, obj_type, diff) ==
    [source_count |-> Len(src), dest_count |-> Len(dst),
     matching |-> Len(NamesClassified(src, dst, obj_type, "matching")),
     differences |-> Len(diff.missing_in_dest) + Len(diff.missing_in_source)
                     + Len(diff.content_differs)]

CmpIdle ==
    /\ cmp_pc = "idle" /\ cmp_type = None /\ cmp_source = <<>> /\ cmp_dest = <<>>
    /\ cmp_summary = None /\ cmp_differences = None

CmpInit ==
    /\ cmp_pc = "fetch" /\ cmp_type = None /\ cmp_source = <<>> /\ cmp_dest = <<>>
    /\ cmp_summary = None /\ cmp_differences = None

\* one turn of `for obj_type in compare_types`: both instances are listed
FetchObjectsByType ==
    /\ cmp_pc = "fetch"
    /\ \E t \in CompareTypes, src \in SeqsUpTo(CmpObjects, MaxCmpObjs),
          dst \in SeqsUpTo(CmpObjects, MaxCmpObjs) :
        /\ cmp_type' = t /\ cmp_source' = src /\ cmp_dest' = dst
    /\ cmp_pc' = "compare"
    /\ UNCHANGED <<cmp_summary, cmp_differences, restCmp>>

\* compare_objects(source_objects, dest_objects, obj_type)
CompareObjects ==
    /\ cmp_pc = "compare"
    /\ LET diff == CompareDifferences(cmp_source, cmp_dest, cmp_type)
       IN  /\ cmp_differences' = diff
           /\ cmp_summary' = CompareSummary(cmp_source, cmp_dest, cmp_type, diff)
    /\ cmp_pc' = "done"
    /\ UNCHANGED <<cmp_type, cmp_source, cmp_dest, restCmp>>

-----------------------------------------------------------------------------
(* Export file names: commands/export/utils.py, commands/export/actions.py *)

SanitizeMaxLength == 25
UuidSuffixLength == 6
MaxExported == 3

\* Characters of a resource name: \w, \s, - and one that is none of them
WordChars == {"a", "A", "b"}
SpaceChars == {" "}
Hyphen == "-"

RECURSIVE RemoveSpecial(_)
\* re.sub(r'[^\w\s-]', '', name)
RemoveSpecial(name) ==
    IF name = <<>> THEN <<>>
    ELSE IF Head(name) \in WordChars \cup SpaceChars \cup {Hyphen}
         THEN <<Head(name)>> \o RemoveSpecial(Tail(name))
         ELSE RemoveSpecial(Tail(name))

RECURSIVE CollapseSeparators(_)
\* re.sub(r'[-\s]+', '-', sanitized)
CollapseSeparators(str) ==
    IF str = <<>> THEN <<>>
    ELSE IF Head(str) \in SpaceChars \cup {Hyphen}
         THEN LET rest == CollapseSeparators(Tail(str))
              IN  IF rest # <<>> /\ Head(rest) = Hyphen THEN rest
                  ELSE <<Hyphen>> \o rest
         ELSE <<Head(str)>> \o CollapseSeparators(Tail(str))

RECURSIVE RStripHyphen(_)
RStripHyphen(str) ==
    IF str # <<>> /\ Last(str) = Hyphen THEN RStripHyphen(SubSeq(str, 1, Len(str) - 1))
    ELSE str

RECURSIVE LStripHyphen(_)
LStripHyphen(str) ==
    IF str # <<>> /\ Head(str) = Hyphen THEN LStripHyphen(Tail(str)) ELSE str

\* sanitize_filename(name, max_length)
SanitizeFilename(name, max_length) ==
    LET sanitized == Lower(LStripHyphen(RStripHyphen(CollapseSeparators(RemoveSpecial(name)))))
    IN  IF Len(sanitized) > max_length
        THEN RStripHyphen(SubSeq(sanitized, 1, max_length))
        ELSE sanitized

\* obj_id.replace("-", "")
RECURSIVE RemoveHyphens(_)
RemoveHyphens(str) ==
    IF str = <<>> THEN <<>>
    ELSE IF Head(str) = Hyphen THEN RemoveHyphens(Tail(str))
         ELSE <<Head(str)>> \o RemoveHyphens(Tail(str))

\* s[-n:]
LastChars(str, n) == SubSeq(str, Max(1, Len(str) - n + 1), Len(str))

\* obj_id.replace("-", "")[-6:]
UuidSuffix(obj_id) == LastChars(RemoveHyphens(obj_id), UuidSuffixLength)

\* `".yml" if output_format == "yaml" else ".json"`
Extension(output_format) == IF output_format = "yaml" THEN ".yml" ELSE ".json"

\* resolve_filename_collision(base_name, existing_files, obj_id, extension)
ResolveFilenameCollision(base_name, existing_files, obj_id, extension) ==
    IF (base_name \o <<extension>>) \notin existing_files
    THEN base_name \o <<extension>>
    ELSE base_name \o <<Hyphen>> \o UuidSuffix(obj_id) \o <<extension>>

\* Resource ids of an instance: distinct identifiers, two of which end in the
\* same six hexadecimal characters
ResourceIds ==
    {<<"1", "-", "a", "b", "c", "1", "2", "3">>,
     <<"2", "-", "a", "b", "c", "1", "2", "3">>,
     <<"3", "-", "d", "e", "f", "4", "5", "6">>}
ResourceNames == {<<"a">>, <<"A", "!">>, <<"a", " ", "-", "b">>, <<"a", "-", "b">>}
Resources == [name : ResourceNames, id : ResourceIds]

\* The lists an instance can return: resource ids are unique
ResourceLists ==
    {l \in SeqsUpTo(Resources, MaxExported) :
        \A i, j \in 1..Len(l) : i # j => l[i].id # l[j].id}

FnIdle ==
    /\ fn_pc = "idle" /\ fn_format = "yaml" /\ fn_todo = <<>>
    /\ fn_existing = {} /\ fn_files = <<>>

FnInit ==
    /\ fn_pc = "start" /\ fn_format \in {"yaml", "json"} /\ fn_todo = <<>>
    /\ fn_existing = {} /\ fn_files = <<>>

\* export_actions_impl up to its loop: the resources are listed and
\* existing_files starts empty
ListResources ==
    /\ fn_pc = "start"
    /\ \E l \in ResourceLists : fn_todo' = l
    /\ fn_existing' = {}
    /\ fn_pc' = "loop"
    /\ UNCHANGED <<fn_format, fn_files, restFn>>

\* One turn of the export loop: the file name is chosen and reserved, then
\* the file is written; a failed write is counted and the loop goes on
ExportResource ==
    /\ fn_pc = "loop" /\ fn_todo # <<>>
    /\ LET res == Head(fn_todo)
           base_name == SanitizeFilename(res.name, SanitizeMaxLength)
           filename == ResolveFilenameCollision(base_name, fn_existing, res.id,
                                                Extension(fn_format))
       IN  /\ fn_existing' = fn_existing \cup {filename}
           /\ \E ok \in BOOLEAN :
                fn_files' = Append(fn_files, [filename |-> filename, id |-> res.id,
                                              base |-> base_name, written |-> ok])
    /\ fn_todo' = Tail(fn_todo)
    /\ UNCHANGED <<fn_pc, fn_format, restFn>>

\* the loop is over
ExportFinished ==
    /\ fn_pc = "loop" /\ fn_todo = <<>>
    /\ fn_pc' = "done"
    /\ UNCHANGED <<fn_format, fn_todo, fn_existing, fn_files, restFn>>

-----------------------------------------------------------------------------
(* Rule exclusion sources: commands/migrate/rule_exclusions.py,
   commands/export/utils.py.  A source string is a sequence of tokens: the
   three literal heads of EXCLUSION_PATTERNS, the quote, the closing
   parenthesis and one other character. *)

RecipientHead == "any(recipients.to, .email.email == "
SenderHead == "sender.email.email == "
DomainHead == "sender.email.domain.domain == "
Quote == "'"
CloseParen == ")"
SourceTokens == {RecipientHead, SenderHead, DomainHead, Quote, CloseParen, "x"}

\* What the parsers return for no match, as a record of the same shape as a
\* match
NoMatch == [type |-> None, value |-> <<>>]

MaxValueLen == 2
MaxSourceLen == 3

\* EXCLUSION_PATTERNS.items(): the types in the order of the dict
ExclusionTypes == <<"recipient_email", "sender_email", "sender_domain">>

\* the literal text of a pattern before its quoted group
PatternHead(exc_type) ==
    CASE exc_type = "recipient_email" -> RecipientHead
      [] exc_type = "sender_email" -> SenderHead
      [] exc_type = "sender_domain" -> DomainHead

\* the literal text of a pattern after its quoted group
PatternTail(exc_type) == IF exc_type = "recipient_email" THEN <<CloseParen>> ELSE <<>>

\* A source string of one of the three shapes
BuildSource(exc_type, value) ==
    <<PatternHead(exc_type), Quote>> \o value \o <<Quote>> \o PatternTail(exc_type)

\* the index of the first quote of str after index i, 0 when there is none
FirstQuoteAfter(str, i) ==
    IF \E j \in (i + 1)..Len(str) : str[j] = Quote
    THEN CHOOSE j \in (i + 1)..Len(str) :
            str[j] = Quote /\ \A k \in (i + 1)..(j - 1) : str[k] # Quote
    ELSE 0

\* the pattern of exc_type matches at index i: head, quote, ([^']+), quote, tail
MatchesAt(str, i, exc_type) ==
    /\ i + 1 <= Len(str)
    /\ str[i] = PatternHead(exc_type)
    /\ str[i + 1] = Quote
    /\ LET j == FirstQuoteAfter(str, i + 1)
       IN  /\ j >= i + 3
           /\ j + Len(PatternTail(exc_type)) <= Len(str)
           /\ SubSeq(str, j + 1, j + Len(PatternTail(exc_type))) = PatternTail(exc_type)

\* pattern.search(exclusion_str): is there a match
Searches(str, exc_type) == \E i \in 1..Len(str) : MatchesAt(str, i, exc_type)

\* variant: the group keeps its quotes
MatchGroupWithQuotes(str, exc_type) ==
    LET i == CHOOSE k \in 1..Len(str) :
                /\ MatchesAt(str, k, exc_type)
                /\ \A m \in 1..(k - 1) : ~MatchesAt(str, m, exc_type)
    IN  SubSeq(str, i + 1, FirstQuoteAfter(str, i + 1))

\* match.group(1) of the leftmost match
MatchGroup(str, exc_type) ==
    LET i == CHOOSE k \in 1..Len(str) :
                /\ MatchesAt(str, k, exc_type)
                /\ \A m \in 1..(k - 1) : ~MatchesAt(str, m, exc_type)
    IN  SubSeq(str, i + 2, FirstQuoteAfter(str, i + 1) - 1)

\* parse_exclusion_string(exclusion_str): the first type whose pattern is
\* found, with its group, or None
ParseExclusionString(str) ==
    IF \E t \in 1..Len(ExclusionTypes) : Searches(str, ExclusionTypes[t])
    THEN LET t == CHOOSE k \in 1..Len(ExclusionTypes) :
                    /\ Searches(str, ExclusionTypes[k])
                    /\ \A m \in 1..(k - 1) : ~Searches(str, ExclusionTypes[m])
         IN  [type |-> ExclusionTypes[t],
              value |-> MatchGroup(str, ExclusionTypes[t])]
    ELSE NoMatch

\* parse_rule_exclusion(exclusion_source): the same patterns in the same order
ParseRuleExclusion(str) == ParseExclusionString(str)

QuoteFreeValues == SeqsUpTo(SourceTokens \ {Quote}, MaxValueLen)

PxIdle ==
    /\ px_pc = "idle" /\ px_built = NoMatch /\ px_source = <<>>
    /\ px_parsed = NoMatch /\ px_outcome = None

PxInit ==
    /\ px_pc = "start" /\ px_built = NoMatch /\ px_source = <<>>
    /\ px_parsed = NoMatch /\ px_outcome = None

\* The instance holds a rule exclusion of one of the three shapes
ShapedExclusion ==
    /\ px_pc = "start"
    /\ \E t \in 1..Len(ExclusionTypes), v \in QuoteFreeValues :
        /\ px_built' = [type |-> ExclusionTypes[t], value |-> v]
        /\ px_source' = BuildSource(ExclusionTypes[t], v)
    /\ px_pc' = "parse"
    /\ UNCHANGED <<px_parsed, px_outcome, restPx>>

\* The instance holds a rule exclusion with any source text
OtherExclusion ==
    /\ px_pc = "start"
    /\ \E s \in SeqsUpTo(SourceTokens, MaxSourceLen) : px_source' = s
    /\ px_pc' = "parse"
    /\ UNCHANGED <<px_built, px_parsed, px_outcome, restPx>>

\* match_exclusions_to_rules, for an exclusion whose rule is in the
\* destination: parsed, then appended to exclusions_to_apply or skipped
MatchExclusionToRule ==
    /\ px_pc = "parse"
    /\ px_parsed' = ParseExclusionString(px_source)
    /\ px_outcome' = IF px_parsed' = NoMatch THEN "skipped" ELSE "applied"
    /\ px_pc' = "done"
    /\ UNCHANGED <<px_built, px_source, restPx>>

\* add_rule_exclusions of export rules: parsed, then added to exclusions_dict
\* or left out
AddRuleExclusion ==
    /\ px_pc = "parse"
    /\ px_parsed' = ParseRuleExclusion(px_source)
    /\ px_outcome' = IF px_parsed' = NoMatch THEN "skipped" ELSE "applied"
    /\ px_pc' = "done"
    /\ UNCHANGED <<px_built, px_source, restPx>>

-----------------------------------------------------------------------------
(* The local config store: utils/config.py.  Two invocations of the CLI run
   set_config_value against the same file; a dict is a set of <<key, value>>
   pairs with one pair per key. *)

Invocations == {1, 2}
\* set_config_value(key, value) of invocation p
KeyOf(p) == IF p = 1 THEN "a" ELSE "b"
ValueOf(p) == p
\* what the file can hold before the two invocations start
OldPairs == {<<"a", 0>>, <<"b", 0>>}

NoFile == [exists |-> FALSE, truncated |-> FALSE, content |-> {}]
FileWith(content) == [exists |-> TRUE, truncated |-> FALSE, content |-> content]
\* open(config_path, "w") leaves the file empty until json.dump has written
TruncatedFile == [exists |-> TRUE, truncated |-> TRUE, content |-> {}]

\* variant: a key the dict already holds keeps its value
SetValueIfAbsent(config, key, value) ==
    IF \E pair \in config : pair[1] = key THEN config
    ELSE config \cup {<<key, value>>}

\* config[key] = value
SetValue(config, key, value) ==
    {pair \in config : pair[1] # key} \cup {<<key, value>>}

CfIdle ==
    /\ cf_file = NoFile /\ cf_pc = [p \in Invocations |-> "idle"]
    /\ cf_config = [p \in Invocations |-> {}] /\ cf_log = <<>>

CfInit ==
    /\ cf_file \in {NoFile} \cup {FileWith(c) : c \in SUBSET OldPairs}
    /\ cf_pc = [p \in Invocations |-> "load"]
    /\ cf_config = [p \in Invocations |-> {}] /\ cf_log = <<>>

\* set_config_value: load_config returns {} for a missing file and the parsed
\* file otherwise, then config[key] = value
LoadConfig(p) ==
    /\ cf_pc[p] = "load" /\ ~cf_file.truncated
    /\ cf_config' = [cf_config EXCEPT ![p] =
            SetValue(IF cf_file.exists THEN cf_file.content ELSE {}, KeyOf(p), ValueOf(p))]
    /\ cf_pc' = [cf_pc EXCEPT ![p] = "open"]
    /\ cf_log' = Append(cf_log, <<p, "load">>)
    /\ UNCHANGED <<cf_file, restCf>>

\* load_config on a file another invocation has opened for writing and not
\* yet written: json.load raises JSONDecodeError, ConfigurationError is raised
LoadConfigFails(p) ==
    /\ cf_pc[p] = "load" /\ cf_file.truncated
    /\ cf_pc' = [cf_pc EXCEPT ![p] = "error"]
    /\ cf_log' = Append(cf_log, <<p, "load">>)
    /\ UNCHANGED <<cf_file, cf_config, restCf>>

\* save_config: open(config_path, "w")
OpenForWrite(p) ==
    /\ cf_pc[p] = "open"
    /\ cf_file' = TruncatedFile
    /\ cf_pc' = [cf_pc EXCEPT ![p] = "dump"]
    /\ cf_log' = Append(cf_log, <<p, "open">>)
    /\ UNCHANGED <<cf_config, restCf>>

\* save_config: json.dump(config, f), close, chmod
DumpConfig(p) ==
    /\ cf_pc[p] = "dump"
    /\ cf_file' = FileWith(cf_config[p])
    /\ cf_pc' = [cf_pc EXCEPT ![p] = "done"]
    /\ cf_log' = Append(cf_log, <<p, "dump">>)
    /\ UNCHANGED <<cf_config, restCf>>

-----------------------------------------------------------------------------
(* migrate exclusions, run more than once against the same destination:
   commands/migrate/exclusions.py.  An exclusion is its name and source_md5;
   the destination is the set of exclusions it holds. *)

MaxExclusions == 2
MaxRuns == 2
Exclusions == [name : Names, source_md5 : Vers]

\* migration_data["new_exclusions"]: every filtered exclusion, status New;
\* the destination is not listed
NewExclusions(filtered_exclusions, dest) == filtered_exclusions

MxIdle ==
    /\ mx_pc = "idle" /\ mx_run = 0 /\ mx_source = <<>> /\ mx_dest = {}
    /\ mx_dest_before = {} /\ mx_todo = <<>> /\ mx_posts = <<>>
    /\ mx_results = [created |-> 0, failed |-> 0]

MxInit ==
    /\ mx_pc = "start" /\ mx_run = 1
    /\ mx_source \in SeqsUpTo(Exclusions, MaxExclusions)
    /\ mx_dest \in SUBSET Exclusions
    /\ mx_dest_before = mx_dest /\ mx_todo = <<>> /\ mx_posts = <<>>
    /\ mx_results = [created |-> 0, failed |-> 0]

\* migrate_exclusions_between_instances up to perform_migration: nothing
\* selected, dry run or a declined prompt return at once
MigrateExclusionsStart ==
    /\ mx_pc = "start"
    /\ \E dry \in BOOLEAN, answer \in BOOLEAN :
        IF mx_source = <<>> \/ dry \/ ~answer
        THEN mx_pc' = "returned" /\ mx_todo' = <<>>
        ELSE mx_pc' = "applying" /\ mx_todo' = NewExclusions(mx_source, mx_dest)
    /\ UNCHANGED <<mx_run, mx_source, mx_dest, mx_dest_before, mx_posts, mx_results,
                   restMx>>

\* process_exclusion: the payload is posted; the destination creates the
\* exclusion or answers with an error
ProcessExclusion ==
    /\ mx_pc = "applying" /\ mx_todo # <<>>
    /\ mx_posts' = Append(mx_posts, Head(mx_todo))
    /\ \E created \in BOOLEAN :
        IF created
        THEN /\ mx_dest' = mx_dest \cup {Head(mx_todo)}
             /\ mx_results' = [mx_results EXCEPT !.created = @ + 1]
        ELSE /\ mx_dest' = mx_dest
             /\ mx_results' = [mx_results EXCEPT !.failed = @ + 1]
    /\ mx_todo' = Tail(mx_todo)
    /\ UNCHANGED <<mx_pc, mx_run, mx_source, mx_dest_before, restMx>>

\* perform_migration is through: "Migration completed: ..."
MigrateExclusionsFinish ==
    /\ mx_pc = "applying" /\ mx_todo = <<>>
    /\ mx_pc' = "returned"
    /\ UNCHANGED <<mx_run, mx_source, mx_dest, mx_dest_before, mx_todo, mx_posts,
                   mx_results, restMx>>

\* The command is run again with the same selection
RunAgain ==
    /\ mx_pc = "returned" /\ mx_run < MaxRuns
    /\ mx_run' = mx_run + 1
    /\ mx_pc' = "start"
    /\ mx_dest_before' = mx_dest
    /\ mx_posts' = <<>>
    /\ mx_results' = [created |-> 0, failed |-> 0]
    /\ UNCHANGED <<mx_source, mx_dest, mx_todo, restMx>>

-----------------------------------------------------------------------------
(* Properties of PaginatedFetcher.fetch_all *)

Ceil(n, d) == (n + d - 1) \div d
ExpectedOffsets(n, ps) == [i \in 1..Max(1, Ceil(n, ps)) |-> (i - 1) * ps]
IsPrefix(s, t) == Len(s) <= Len(t) /\ \A i \in 1..Len(s) : s[i] = t[i]

\* C4: listing exclusions or feeds with the extractors that migrate exclusions and
\* migrate feeds pass to the generic fetcher returns every object the instance
\* holds, also when it holds more objects than fit in one page.
C4_ListsEveryObject ==
    (fetch_pc = "done" /\ fetch_extractor = "page_len")
        => all_items = [i \in 1..fetch_server |-> i]

\* C5: against an endpoint that reports total=N and serves items
\* [offset, offset+limit), fetch_all sends exactly ceil(N/page_size) GETs at offsets
\* 0, page_size, 2*page_size, ... (exactly one when N=0) and returns exactly the N
\* items, each once and in server order; total=137 with page size 100 takes the
\* two requests at offsets 0 and 100.
C5_FetchAllExact ==
    fetch_extractor = "auto" =>
        /\ IsPrefix(fetch_requests, ExpectedOffsets(fetch_server, page_size))
        /\ fetch_pc = "done" =>
              /\ fetch_requests = ExpectedOffsets(fetch_server, page_size)
              /\ all_items = [i \in 1..fetch_server |-> i]
              /\ (fetch_server = ExampleTotal /\ page_size = DefaultPageSize)
                    => fetch_requests = <<0, DefaultPageSize>>

C5_Witness ==
    /\ fetch_pc = "done" /\ fetch_extractor = "auto"
    /\ fetch_server = ExampleTotal /\ page_size = DefaultPageSize
    /\ Len(fetch_requests) = 2 /\ Len(all_items) = ExampleTotal

-----------------------------------------------------------------------------
(* Properties of ApiClient._make_request *)

Statuses(h) == [i \in 1..Len(h) |-> h[i].status]

Is4xxOtherThan429(st) == st >= 400 /\ st <= 499 /\ st # 429

\* C7: a request answered with a 4xx status other than 429 makes the call raise
\* right after that request: no backoff sleep follows it and no further request is
\* sent, whatever remains of the retry budget.
C7_ClientErrorImmediate ==
    (req_history # <<>> /\ Is4xxOtherThan429(Last(req_history).status))
        => /\ req_pc = "raised"
           /\ req_sleeps = Len(req_history) - 1

C7_Witness ==
    /\ Statuses(req_history) = <<503, 404>>
    /\ max_retries = 3
    /\ req_pc = "raised"
    /\ req_sleeps = 1

-----------------------------------------------------------------------------
(* Properties of the migrate subcommands *)

\* C1: under --dry-run no POST and no PATCH is sent to the destination, by any
\* migrate subcommand, migrate all included.
C1_DryRunSendsNoWrite == dry_run => dest_writes = 0

\* A dry run of migrate all in which the last step had objects to migrate and
\* returned its preview.
C1_Witness ==
    /\ dry_run /\ mig_cmd = "all" /\ mig_pc = "returned"
    /\ step_idx = Len(StepNames)
    /\ step_result = Success("dry_run")
    /\ dest_writes = 0

\* C2: every PATCH /v1/rules/{id} sent by migrate rules targets a destination rule
\* whose name and source_md5 both equal those of the source rule sent.
C2_PatchTargetsMatchedRule ==
    (last_write.method = "PATCH" /\ last_write.step = "rules")
        => /\ last_write.target_name = last_write.name
           /\ last_write.target_ver = last_write.ver

\* C8: without --dry-run a subcommand sends POST/PATCH only after its preview was
\* output and its confirmation prompt returned true (under migrate all, also the
\* plan's); a declined prompt leaves the subcommand with zero POST/PATCH.
C8_WritesOnlyAfterConfirmation ==
    /\ step_writes > 0 => (previewed /\ confirmed = "yes")
    /\ confirmed = "no" => step_writes = 0
    /\ (mig_cmd = "all" /\ dest_writes > 0) => plan_confirmed = "yes"
    /\ plan_confirmed = "no" => dest_writes = 0

\* A subcommand that wrote after its preview and a confirmed prompt.
C8_Witness ==
    /\ ~dry_run /\ ~yes
    /\ previewed /\ confirmed = "yes"
    /\ step_writes > 0
    /\ mig_pc = "returned"

\* The order of dependencies as documented by migrate all.
DependencyOrder ==
    <<"actions", "lists", "exclusions", "feeds", "rules", "actions-to-rules",
      "rule-exclusions">>

RECURSIVE StepEvents(_, _)
StepEvents(i, skp) ==
    IF i > Len(DependencyOrder) THEN <<>>
    ELSE (IF DependencyOrder[i] \in skp
            THEN <<Event("skip", DependencyOrder[i])>>
            ELSE <<Event("invoke", DependencyOrder[i]),
                   Event("return", DependencyOrder[i])>>)
         \o StepEvents(i + 1, skp)

ExpectedTrace(skp) ==
    <<Event("GET /v1/me", "source"), Event("GET /v1/me", "destination"),
      Event("plan", "all"), Event("confirm", "all")>> \o StepEvents(1, skp)

\* C9: migrate all validates the source, then the destination, outputs the plan
\* and prompts, then runs the steps that are not skipped in dependency order, one
\* after the other has returned; a skipped step is never called and sends nothing.
C9_AllRunsStepsInOrder ==
    mig_cmd = "all" =>
        /\ IsPrefix(trace, ExpectedTrace(skip))
        /\ requested \cap skip = {}
        /\ \A i \in 1..Len(trace) :
             trace[i].ev = "invoke" => plan_confirmed = "yes"
        /\ mig_pc \in {"previewed", "applying", "returned"}
             => trace[Len(trace)] = Event("invoke", CurStep)

\* A complete run of migrate all that skipped feeds and rule-exclusions.
C9_Witness ==
    /\ mig_cmd = "all" /\ mig_pc = "done"
    /\ skip = {"feeds", "rule-exclusions"}
    /\ trace = ExpectedTrace(skip)
    /\ requested = StepSet \ skip

-----------------------------------------------------------------------------
(* Properties of the export commands and of the exporter *)

\* C3: without --include-sensitive every file written for a webhook action, by
\* export actions and by export all alike, has the value of config.secret and the
\* value of every Authorization header replaced by [REDACTED].
C3_ExportRedactsSecrets ==
    ~include_sensitive =>
        \A i \in 1..Len(exp_files) :
            exp_files[i].type = "webhook" =>
                /\ KeySecret \in exp_files[i].config.keys
                     => exp_files[i].config.secret = Redacted
                /\ \A j \in 1..Len(exp_files[i].config.custom_headers) :
                     exp_files[i].config.custom_headers[j].name = Authorization
                       => exp_files[i].config.custom_headers[j].value = Redacted

\* C10: when every page fetch fails the exporter's loop is left, "No data returned
\* or an error occurred" is reported and no file is written.
C10_AllFetchesFailedRunEnds ==
    ~ur_any_ok =>
        /\ (ur_pc = "loop" /\ ur_rounds = MaxRounds)
             => ~LoopCondition(ur_total, ur_offset)
        /\ ur_pc = "done" => (ur_report = "no_data" /\ ~ur_file)
        /\ ~ur_file

InFlight == {i \in 1..Len(ur_tasks) : ur_tasks[i].state = "pending"}

\* C11: the exporter never has more than 5 page fetches in flight: a round issues
\* at most 5 fetches, a new round is issued only when no fetch is in flight, and a
\* round advances the offset by exactly 25 times the number of fetches it issued.
C11_BoundedFanOut ==
    /\ [](Cardinality(InFlight) <= 5 /\ Len(ur_tasks) <= 5)
    /\ [](ur_pc = "loop" => InFlight = {})
    /\ [][/\ ur_rounds' # ur_rounds => (InFlight = {} /\ Len(ur_tasks') <= 5)
          /\ ur_offset' # ur_offset
               => /\ InFlight = {}
                  /\ ur_offset' = ur_offset + 25 * Len(ur_tasks)]_vars

\* A second round that issued a single fetch (126 groups: offsets 0..100, then 125)
\* has been processed.
C11_Witness ==
    /\ ur_pc = "loop" /\ ur_rounds = 2
    /\ ur_server = 126 /\ ur_total = <<126>>
    /\ ur_offset = 150

-----------------------------------------------------------------------------
(* Properties of the New-Rule Hunter *)

JobIdx == 1..Len(h_jobs)

\* C12: every started job is polled, a sleep between two polls, until its status is
\* COMPLETED or ERROR and no longer; an exception while polling a job makes that
\* job ERROR and ends its polling, and changes no other job.
C12_PolledUntilTerminal ==
    /\ [](\A j \in JobIdx :
            /\ (h_jobs[j].pc = "done") = (h_jobs[j].status \in {"COMPLETED", "ERROR"})
            /\ h_jobs[j].pc = "done" => h_jobs[j].polls >= 1
            /\ h_jobs[j].raised => (h_jobs[j].status = "ERROR" /\ h_jobs[j].pc = "done")
            /\ h_jobs[j].pc = "poll" => h_jobs[j].polls = h_jobs[j].sleeps
            /\ h_jobs[j].pc # "poll" => h_jobs[j].polls = h_jobs[j].sleeps + 1)
    /\ [](h_pc \in {"results", "done"} => \A j \in JobIdx : h_jobs[j].pc = "done")
    /\ [][\A j \in JobIdx :
            (h_pc = "polling" /\ h_jobs'[j].raised /\ ~h_jobs[j].raised)
              => /\ h_pc' = "polling"
                 /\ \A k \in JobIdx \ {j} : h_jobs'[k] = h_jobs[k]]_vars

\* The poll of the first job raised; the second job, polled once before, has slept
\* and is about to be polled again.
C12_Witness ==
    /\ h_pc = "polling" /\ Len(h_jobs) >= 2
    /\ h_jobs[1].raised /\ h_jobs[1].status = "ERROR" /\ h_jobs[1].pc = "done"
    /\ h_jobs[2].status = "RUNNING" /\ h_jobs[2].pc = "poll" /\ h_jobs[2].sleeps = 1

\* C13: GET /v0/hunt-jobs/{id}/results is requested only for jobs that were started
\* and whose polled status is COMPLETED; a rule whose hunt failed to start is never
\* polled, never has results requested and has no report row.
C13_ResultsOnlyForCompleted ==
    /\ \A q \in h_requests :
         /\ q.kind \in {"poll", "results"} => h_started[q.rule] = "ok"
         /\ q.kind = "results"
              => \E j \in JobIdx : h_jobs[j].rule = q.rule /\ h_jobs[j].status = "COMPLETED"
    /\ \A r \in 1..h_nrules :
         h_started[r] = "failed"
           => /\ \A j \in JobIdx : h_jobs[j].rule # r
              /\ \A i \in 1..Len(h_report) : h_report[i] # r
              /\ Request("poll", r) \notin h_requests
              /\ Request("results", r) \notin h_requests

\* A finished run of three rules: the first failed to start, the second completed
\* and had its results fetched, the third ended in ERROR.
C13_Witness ==
    /\ h_pc = "done" /\ h_nrules = 3
    /\ h_started = <<"failed", "ok", "ok">>
    /\ h_jobs[1].status = "COMPLETED" /\ h_jobs[1].results = "counted"
    /\ h_jobs[2].status = "ERROR" /\ h_jobs[2].results = "none"
    /\ h_report = <<2, 3>>
    /\ Request("results", 2) \in h_requests

-----------------------------------------------------------------------------
(* Properties of the Coverage Manager *)

\* C14: every CoverageResult of the analysis has percent_covered equal to the
\* literal "unknown" exactly when has_message_groups is false, and otherwise
\* a number between 0 and 100.
C14_UnknownIffNoGroups ==
    \A i \in 1..Len(cm_results) :
        LET r == cm_results[i]
        IN  /\ (r.percent_covered = Str("unknown")) <=> ~r.has_message_groups
            /\ r.has_message_groups =>
                  /\ IsNumeric(r.percent_covered)
                  /\ NumGe(r.percent_covered, Number(0, 1))
                  /\ NumLe(r.percent_covered, Number(100, 1))

\* The analysis has finished with a rule without message groups and a rule
\* that is half covered.
C14_Witness ==
    /\ cm_pc = "csv"
    /\ \E i, j \in 1..Len(cm_results) :
           /\ ~cm_results[i].has_message_groups
           /\ cm_results[i].error = None
           /\ cm_results[j].has_message_groups
           /\ cm_results[j].percent_covered = Number(50, 1)

\* The message groups of a list that at least one automation rule also flagged
CoveredGroups(messages) ==
    { j \in 1..Len(messages) : \E id \in {101, 102} : id \in messages[j] }

\* C15: for a detection rule with n > 0 message groups of which k are also
\* flagged by at least one automation rule, the result has covered = k,
\* uncovered = n - k and percent_covered = 100*k/n; 10 groups with 4 covered
\* give covered 4 and percent_covered 40.0.
C15_CoverageArithmetic ==
    \A i \in 1..Len(cm_results) :
        LET m == cm_answers[i].messages
            n == Len(m)
            k == Cardinality(CoveredGroups(m))
            r == cm_results[i]
        IN  (~cm_answers[i].raised /\ n > 0) =>
                /\ r.total_message_groups = n
                /\ r.covered_message_groups = k
                /\ r.uncovered_message_groups = n - k
                /\ IsNumeric(r.percent_covered)
                /\ r.percent_covered.num * n = 100 * k * r.percent_covered.den
                /\ (n = 10 /\ k = 4) => r.percent_covered = Number(40, 1)

\* The analysis has finished and one rule had the 10 groups of the example,
\* 4 of them covered, two of these by both automations.
C15_Witness ==
    /\ cm_pc = "csv"
    /\ \E i \in 1..Len(cm_results) :
           /\ cm_answers[i].messages = ExampleGroups(i)
           /\ cm_results[i].covered_message_groups = 4
           /\ cm_results[i].uncovered_message_groups = 6
           /\ cm_results[i].percent_covered = Number(40, 1)

\* C16: analyze_coverage returns exactly one result per detection rule, in
\* input order; a rule whose processing raised gets an error result (zero
\* counts, "unknown" coverage, the error text) and the rules after it are
\* still analysed.
C16_OneResultPerRule ==
    /\ Len(cm_results) = Len(cm_answers)
    /\ Len(cm_results) <= Len(cm_rules)
    /\ cm_pc \in {"csv", "summary", "except"} => Len(cm_results) = Len(cm_rules)
    /\ \A i \in 1..Len(cm_results) :
           /\ cm_results[i].rule_id = cm_rules[i].id
           /\ cm_answers[i].raised =>
                 /\ cm_results[i].total_message_groups = 0
                 /\ cm_results[i].covered_message_groups = 0
                 /\ cm_results[i].uncovered_message_groups = 0
                 /\ cm_results[i].percent_covered = Str("unknown")
                 /\ cm_results[i].error = cm_answers[i].text
                 /\ cm_results[i].error # None
           /\ ~cm_answers[i].raised => cm_results[i].error = None

\* analyze_coverage has returned: the first rule raised, the second was
\* analysed all the same and has its coverage.
C16_Witness ==
    /\ cm_pc = "csv"
    /\ Len(cm_rules) = 2 /\ Len(cm_results) = 2
    /\ cm_answers[1].raised
    /\ cm_results[1].error = "Failed to get messages for rule"
    /\ cm_results[2].has_message_groups
    /\ cm_results[2].total_message_groups = 2

\* C17: for any list of results of analyze_coverage and any threshold,
\* get_rules_above_threshold returns exactly the results whose percent_covered
\* is numeric and at least the threshold, that have message-group data and
\* that carry no error.
C17_ReturnsRulesAboveThreshold ==
    sel_pc \in {"returned", "raised"} =>
        /\ ~sel_out.raised
        /\ sel_out.rows = SelectedByContract(sel_results, sel_threshold)

\* C19: every run that analysed at least one detection rule writes the JSON
\* report and the CSV report and prints the summary, and only after that
\* offers the interactive rule-modification step.
C19_ReportsBeforeOffer ==
    /\ \A l \in 1..Len(cm_trace) :
           cm_trace[l] = "offer" =>
               \E i, j, k \in 1..(l - 1) :
                   /\ cm_trace[i] = "json_report"
                   /\ cm_trace[j] = "csv_rows"
                   /\ cm_trace[k] = "summary"
    /\ (cm_pc = "returned" /\ cm_results # <<>>) =>
           \E i, j, k, l \in 1..Len(cm_trace) :
               /\ cm_trace[i] = "json_report"
               /\ cm_trace[j] = "csv_rows"
               /\ cm_trace[k] = "summary"
               /\ cm_trace[l] = "offer"

\* The PATCH the contract expects for each rule to modify
ExpectedPatches ==
    [i \in 1..Len(mod_todo) |->
        LET rule == OriginalRule(mod_rules, mod_todo[i].rule_id)
        IN  [rule_id |-> rule.id,
             action_ids |-> SelectSeq([j \in 1..Len(rule.actions) |-> rule.actions[j].id],
                                      LAMBDA aid : \E j \in 1..Len(rule.actions) :
                                          /\ rule.actions[j].id = aid
                                          /\ ~rule.actions[j].is_remediative),
             overwrite_actions |-> TRUE]]

\* C18: in a confirmed run without --dry-run every selected rule receives one
\* PATCH /v1/rules/{id} whose action ids are the rule's current action ids
\* minus its remediative ones, and a rule whose PATCH succeeded is counted as
\* a success.
C18_PatchRemovesRemediative ==
    (mod_pc = "done" /\ ~mod_dry_run) =>
        /\ mod_patches = ExpectedPatches
        /\ mod_success + Len(mod_failed) = Len(mod_todo)
        /\ mod_success = Len(mod_patches) - Len(mod_failed)

\* The typed string is a decimal number, with or without sign and point
DenotesNumber(s) ==
    IsDecimal(IF s # <<>> /\ Head(s) = "-" THEN Tail(s) ELSE s)

\* The number a decimal string denotes lies in [lo, hi), or in [lo, hi]
ValueInRange(s, lo, hi, closed) ==
    LET neg == Head(s) = "-"
        body == IF neg THEN Tail(s) ELSE s
        num == DigitsValue(body)
        den == Pow10(FractionDigits(body))
    IN  /\ (neg => num = 0 /\ lo = 0)
        /\ (~neg => num >= lo * den)
        /\ IF closed THEN num <= hi * den ELSE num < hi * den

\* C20: threshold validation accepts a numeric input in [50, 100] without
\* extra confirmation, accepts a numeric input in [0, 50) only after an extra
\* confirmation, and rejects every input that is below 0, above 100 or not
\* numeric.
C20_ThresholdValidation ==
    /\ th_pc = "returned" =>
           /\ DenotesNumber(th_input)
           /\ ValueInRange(th_input, 0, 100, TRUE)
           /\ th_prompted <=> ValueInRange(th_input, 0, 50, FALSE)
    /\ th_pc = "confirm" =>
           DenotesNumber(th_input) /\ ValueInRange(th_input, 0, 50, FALSE)
    /\ (th_pc = "raised" /\ DenotesNumber(th_input)) =>
           \/ ~ValueInRange(th_input, 0, 100, TRUE)
           \/ ValueInRange(th_input, 0, 50, FALSE) /\ th_prompted

-----------------------------------------------------------------------------
(* Properties of the Malicious Sender Extractor *)

\* The union of the keys of sender_email__info over the pages fetched
AllKeys == UNION { ms_pages[i].keys : i \in 1..Len(ms_pages) }

UpperCase == {"A", "B", "X"}

\* C22: in file mode every harvested address is written as a lower-cased
\* line: no line of the output file holds an upper-case character, whatever
\* the case of the keys the API returned.
C22_FileLinesLowerCased ==
    (ms_pc = "done" /\ ms_format = "file") =>
        \A i \in 1..Len(ms_out) : \A j \in 1..Len(ms_out[i]) : ms_out[i][j] \notin UpperCase

-----------------------------------------------------------------------------
(* Properties of report compare *)

InSeq(x, s) == \E i \in 1..Len(s) : s[i] = x

\* every source object went to exactly one of the three lists: the matching
\* count and the two lists of names add up to the source objects
SourceAccounted ==
    cmp_summary.matching + Len(cmp_differences.missing_in_dest)
        + Len(cmp_differences.content_differs) = Len(cmp_source)

\* a destination object is accounted for: listed as missing in the source, or
\* equivalent to a source object of its name that was counted as matching, or
\* different from a source object of its name that was listed under
\* content_differs
DestAccounted(dobj) ==
    \/ InSeq(dobj.name, cmp_differences.missing_in_source)
    \/ \E i \in 1..Len(cmp_source) :
        /\ cmp_source[i].name = dobj.name
        /\ LET class == ClassifySource(cmp_source[i], cmp_dest, cmp_type)
               equiv == AreObjectsEquivalent(cmp_source[i], dobj, cmp_type)
           IN  \/ class = "matching" /\ equiv
               \/ class = "content_differs" /\ ~equiv

\* C23: report compare accounts for every object it fetched: each source
\* object falls in exactly one of matching, missing-in-destination and
\* content-differs, and each destination object is either paired with a
\* source object under matching or content-differs or listed as
\* missing-in-source.
C23_EveryObjectAccounted ==
    cmp_pc = "done" =>
        /\ SourceAccounted
        /\ \A j \in 1..Len(cmp_dest) : DestAccounted(cmp_dest[j])

-----------------------------------------------------------------------------
(* Properties of the export file names *)

\* the resource visited at turn j is the first of its base name
FirstOfBase(j) == \A i \in 1..(j - 1) : fn_files[i].base # fn_files[j].base

\* C24: within one export run no resource file overwrites another: resources
\* whose names sanitize to the same base name get distinct file names, the
\* first keeping the base name and each later one the base name suffixed with
\* the last 6 hexadecimal characters of its id.
C24_NoFileOverwritten ==
    /\ \A i, j \in 1..Len(fn_files) : i # j => fn_files[i].filename # fn_files[j].filename
    /\ \A j \in 1..Len(fn_files) :
        fn_files[j].filename =
            IF FirstOfBase(j) THEN fn_files[j].base \o <<Extension(fn_format)>>
            ELSE fn_files[j].base \o <<Hyphen>> \o UuidSuffix(fn_files[j].id)
                 \o <<Extension(fn_format)>>

-----------------------------------------------------------------------------
(* Properties of the rule exclusion parsers *)

\* str holds a source of one of the three shapes around a non-empty value
HasShape(str) ==
    \E t \in 1..Len(ExclusionTypes), v \in QuoteFreeValues :
        v # <<>> /\ Contains(str, BuildSource(ExclusionTypes[t], v))

\* C25 as stated: a source built from a type and any quote-free value parses
\* to that type and that value.
C25_RoundTripAnyValue ==
    (px_pc = "done" /\ px_built # NoMatch) =>
        px_parsed = [type |-> px_built.type, value |-> px_built.value]

\* C25: a source built from a type and a non-empty quote-free value parses to
\* exactly that type and that value, and a string that holds none of the
\* three shapes parses to no match and is skipped by the caller.
C25_RoundTrip ==
    px_pc = "done" =>
        /\ (px_built # NoMatch /\ px_built.value # <<>>) =>
                px_parsed = [type |-> px_built.type, value |-> px_built.value]
        /\ ~HasShape(px_source) => (px_parsed = NoMatch /\ px_outcome = "skipped")

\* a sender-domain source whose value holds the head of another pattern and a
\* closing parenthesis has been parsed
C25_Witness ==
    /\ px_pc = "done" /\ px_built # NoMatch
    /\ px_built.type = "sender_domain"
    /\ px_built.value = <<SenderHead, CloseParen>>
    /\ px_outcome = "applied"

\* a source of none of the three shapes has been skipped
C25_WitnessNoShape ==
    /\ px_pc = "done" /\ px_built = NoMatch /\ px_source # <<>>
    /\ ~HasShape(px_source) /\ px_outcome = "skipped"

-----------------------------------------------------------------------------
(* Properties of the local config store *)

\* both invocations returned without raising
BothSaved == \A p \in Invocations : cf_pc[p] = "done"

\* the value invocation p set is not in the file
Lost(p) == <<KeyOf(p), ValueOf(p)>> \notin cf_file.content

\* the place of an operation in the log
LogIndex(p, op) == CHOOSE i \in 1..Len(cf_log) : cf_log[i] = <<p, op>>

\* q loaded the file before p wrote it and wrote it after p did
Overlaps(p, q) ==
    /\ LogIndex(q, "load") < LogIndex(p, "dump")
    /\ LogIndex(q, "dump") > LogIndex(p, "dump")

\* C26: the config store gives no isolation between concurrent writers: when
\* two invocations that set different keys both return without an error, the
\* value of one is missing from the file exactly when the other loaded the
\* file before that value was written and saved its own copy afterwards.
C26_LostExactlyOnOverlap ==
    BothSaved =>
        \A p, q \in Invocations : p # q => (Lost(p) <=> Overlaps(p, q))

\* two overlapping invocations both returned without an error and only the
\* key of the second is stored
C26_Witness ==
    /\ BothSaved
    /\ Lost(1) /\ ~Lost(2)
    /\ ~\E pair \in cf_file.content : pair[1] = KeyOf(1)

-----------------------------------------------------------------------------
(* Properties of the step results of migrate all *)

\* C27: migrate all records a step with status success only if the result
\* the step returned was itself successful: a step that returned an error
\* result is not reported as a success.
C27_SuccessOnlyIfStepSucceeded ==
    [][\A s \in StepSet :
          (overall_results[s] # "success" /\ overall_results'[s] = "success")
              => step_result.ok]_vars

-----------------------------------------------------------------------------
(* Properties of a request answered with a 2xx status *)

\* C28: within one post or patch call, once the server has answered an
\* attempt with a 2xx status no further request is sent for that call: only
\* the last answer of a call can have a 2xx status.
C28_NoRequestAfter2xx ==
    \A i \in 1..(Len(req_history) - 1) : req_history[i].status \div 100 # 2

-----------------------------------------------------------------------------
(* Properties of migrate exclusions run again *)

\* C29: migrate exclusions is idempotent: a run against a destination that
\* already holds every selected exclusion sends no POST /v1/exclusions.
C29_NoPostWhenDestinationHoldsAll ==
    (\A i \in 1..Len(mx_source) : mx_source[i] \in mx_dest_before)
        => mx_posts = <<>>

-----------------------------------------------------------------------------
(* Termination of a New-Rule Hunter run *)

\* C30: a New-Rule Hunter run terminates: whatever statuses the server
\* reports for the started jobs, a job that stays PENDING included, the
\* polling ends and the run goes on to its report (or has exited before).
C30_RunTerminates == <>(h_pc \in {"done", "exited"})

-----------------------------------------------------------------------------
(* Specifications *)

FetchNext == FetchPage
InitFetch == FetchInit /\ ClientIdle /\ MigIdle /\ ExpIdle /\ UrIdle /\ HunterIdle
    /\ CmIdle /\ SelIdle /\ ModIdle /\ ThIdle /\ MsIdle /\ CmpIdle /\ FnIdle /\ PxIdle
    /\ CfIdle /\ MxIdle
SpecFetch == InitFetch /\ [][FetchNext]_vars

ClientNext == Attempt \/ Exhausted
InitClient == ClientInit /\ FetchIdle /\ MigIdle /\ ExpIdle /\ UrIdle /\ HunterIdle
    /\ CmIdle /\ SelIdle /\ ModIdle /\ ThIdle /\ MsIdle /\ CmpIdle /\ FnIdle /\ PxIdle
    /\ CfIdle /\ MxIdle
SpecClient == InitClient /\ [][ClientNext]_vars

MigNext ==
    \/ Standalone \/ SubConfirm \/ SubApply \/ SubFinish \/ Output
    \/ AllValidate \/ AllConfirm \/ AllSkipStep \/ AllInvokeStep \/ AllRecord
    \/ AllSummary
InitMigrate == MigInit /\ FetchIdle /\ ClientIdle /\ ExpIdle /\ UrIdle /\ HunterIdle
    /\ CmIdle /\ SelIdle /\ ModIdle /\ ThIdle /\ MsIdle /\ CmpIdle /\ FnIdle /\ PxIdle
    /\ CfIdle /\ MxIdle
SpecMigrate == InitMigrate /\ [][MigNext]_vars
ExpNext == ExportFetch \/ ExportAction \/ ExportReturn
InitExport == ExpInit /\ FetchIdle /\ ClientIdle /\ MigIdle /\ UrIdle /\ HunterIdle
    /\ CmIdle /\ SelIdle /\ ModIdle /\ ThIdle /\ MsIdle /\ CmpIdle /\ FnIdle /\ PxIdle
    /\ CfIdle /\ MxIdle
SpecExport == InitExport /\ [][ExpNext]_vars

UrNext == RoundIssue \/ FetchData \/ RoundProcess \/ UrFinish
InitExporter == UrInit /\ FetchIdle /\ ClientIdle /\ MigIdle /\ ExpIdle /\ HunterIdle
    /\ CmIdle /\ SelIdle /\ ModIdle /\ ThIdle /\ MsIdle /\ CmpIdle /\ FnIdle /\ PxIdle
    /\ CfIdle /\ MxIdle
SpecExporter == InitExporter /\ [][UrNext]_vars

HunterNext ==
    \/ GetNewRules \/ StartHunt \/ StartedAll \/ PollJob \/ WakeJob \/ PolledAll
    \/ GetResult \/ GenerateReport
InitHunter == HunterInit /\ FetchIdle /\ ClientIdle /\ MigIdle /\ ExpIdle /\ UrIdle
    /\ CmIdle /\ SelIdle /\ ModIdle /\ ThIdle /\ MsIdle /\ CmpIdle /\ FnIdle /\ PxIdle
    /\ CfIdle /\ MxIdle
SpecHunter == InitHunter /\ [][HunterNext]_vars

CoverageNext ==
    \/ CheckDetectionRules \/ AnalyzeRule \/ GenerateJsonReport \/ GenerateCsvReport
    \/ UnexpectedError
InitCoverage == CmInit /\ FetchIdle /\ ClientIdle /\ MigIdle /\ ExpIdle /\ UrIdle
    /\ HunterIdle /\ SelIdle /\ ModIdle /\ ThIdle /\ MsIdle /\ CmpIdle /\ FnIdle
    /\ PxIdle /\ CfIdle /\ MxIdle
SpecCoverage == InitCoverage /\ [][CoverageNext]_vars

SelectNext == CallGetRulesAboveThreshold
InitSelect == SelInit /\ FetchIdle /\ ClientIdle /\ MigIdle /\ ExpIdle /\ UrIdle
    /\ HunterIdle /\ CmIdle /\ ModIdle /\ ThIdle /\ MsIdle /\ CmpIdle /\ FnIdle
    /\ PxIdle /\ CfIdle /\ MxIdle
SpecSelect == InitSelect /\ [][SelectNext]_vars

ModifyNext == ModifyRule \/ ModifySummary
InitModify == ModInit /\ FetchIdle /\ ClientIdle /\ MigIdle /\ ExpIdle /\ UrIdle
    /\ HunterIdle /\ CmIdle /\ SelIdle /\ ThIdle /\ MsIdle /\ CmpIdle /\ FnIdle
    /\ PxIdle /\ CfIdle /\ MxIdle
SpecModify == InitModify /\ [][ModifyNext]_vars

ThresholdNext == EnterThreshold \/ ValidateThreshold \/ ConfirmLowThreshold \/ TryAgain
InitThreshold == ThInit /\ FetchIdle /\ ClientIdle /\ MigIdle /\ ExpIdle /\ UrIdle
    /\ HunterIdle /\ CmIdle /\ SelIdle /\ ModIdle /\ MsIdle /\ CmpIdle /\ FnIdle
    /\ PxIdle /\ CfIdle /\ MxIdle
SpecThreshold == InitThreshold /\ [][ThresholdNext]_vars

SendersNext == FetchSenderPage \/ FetchSenderPageFails \/ OutputSenders
InitSenders == MsInit /\ FetchIdle /\ ClientIdle /\ MigIdle /\ ExpIdle /\ UrIdle
    /\ HunterIdle /\ CmIdle /\ SelIdle /\ ModIdle /\ ThIdle /\ CmpIdle /\ FnIdle
    /\ PxIdle /\ CfIdle /\ MxIdle
SpecSenders == InitSenders /\ [][SendersNext]_vars

CompareNext == FetchObjectsByType \/ CompareObjects
InitCompare == CmpInit /\ FetchIdle /\ ClientIdle /\ MigIdle /\ ExpIdle /\ UrIdle
    /\ HunterIdle /\ CmIdle /\ SelIdle /\ ModIdle /\ ThIdle /\ MsIdle /\ FnIdle
    /\ PxIdle /\ CfIdle /\ MxIdle
SpecCompare == InitCompare /\ [][CompareNext]_vars

FileNamesNext == ListResources \/ ExportResource \/ ExportFinished
InitFileNames == FnInit /\ FetchIdle /\ ClientIdle /\ MigIdle /\ ExpIdle /\ UrIdle
    /\ HunterIdle /\ CmIdle /\ SelIdle /\ ModIdle /\ ThIdle /\ MsIdle /\ CmpIdle
    /\ PxIdle /\ CfIdle /\ MxIdle
SpecFileNames == InitFileNames /\ [][FileNamesNext]_vars

ExclusionParseNext ==
    ShapedExclusion \/ OtherExclusion \/ MatchExclusionToRule \/ AddRuleExclusion
InitExclusionParse == PxInit /\ FetchIdle /\ ClientIdle /\ MigIdle /\ ExpIdle /\ UrIdle
    /\ HunterIdle /\ CmIdle /\ SelIdle /\ ModIdle /\ ThIdle /\ MsIdle /\ CmpIdle
    /\ FnIdle /\ CfIdle /\ MxIdle
SpecExclusionParse == InitExclusionParse /\ [][ExclusionParseNext]_vars

ConfigNext ==
    \E p \in Invocations :
        LoadConfig(p) \/ LoadConfigFails(p) \/ OpenForWrite(p) \/ DumpConfig(p)
InitConfig == CfInit /\ FetchIdle /\ ClientIdle /\ MigIdle /\ ExpIdle /\ UrIdle
    /\ HunterIdle /\ CmIdle /\ SelIdle /\ ModIdle /\ ThIdle /\ MsIdle /\ CmpIdle
    /\ FnIdle /\ PxIdle /\ MxIdle
SpecConfig == InitConfig /\ [][ConfigNext]_vars

ExclusionsAgainNext ==
    MigrateExclusionsStart \/ ProcessExclusion \/ MigrateExclusionsFinish \/ RunAgain
InitExclusionsAgain == MxInit /\ FetchIdle /\ ClientIdle /\ MigIdle /\ ExpIdle /\ UrIdle
    /\ HunterIdle /\ CmIdle /\ SelIdle /\ ModIdle /\ ThIdle /\ MsIdle /\ CmpIdle
    /\ FnIdle /\ PxIdle /\ CfIdle
SpecExclusionsAgain == InitExclusionsAgain /\ [][ExclusionsAgainNext]_vars

\* The hunter with poll_job followed without a limit.  The event loop of
\* asyncio runs every coroutine that is ready, and run goes from one phase to
\* the next without waiting on anything but its own calls: every step that
\* stays enabled is taken.
HunterLiveNext ==
    \/ GetNewRules \/ StartHunt \/ StartedAll \/ PollAnyJob \/ WakeAnyJob
    \/ PolledAll \/ GetResult \/ GenerateReport
HunterFairness ==
    /\ WF_vars(GetNewRules) /\ WF_vars(StartHunt) /\ WF_vars(StartedAll)
    /\ WF_vars(PolledAll) /\ WF_vars(GetResult) /\ WF_vars(GenerateReport)
    /\ \A j \in 1..MaxRules : WF_vars(PollJobOf(j)) /\ WF_vars(WakeJobOf(j))
SpecHunterLive == InitHunter /\ [][HunterLiveNext]_vars /\ HunterFairness

====
